---- MODULE Spec2Model ----
(***************************************************************************)
(* Model of the morphzero game core: the rules, moves, states and engines  *)
(* of the connect-on-matrix-board games (GenericGomoku, ConnectFour).      *)
(*                                                                         *)
(* Python values are represented as follows.                               *)
(*   None                      the empty tuple <<>>                        *)
(*   Optional[Result], Optional[Rules], Optional[State]                    *)
(*                             <<>> or the one-element tuple <<v>>         *)
(*   MatrixBoardCoordinates    <<row, column>>                             *)
(*   MatrixBoardSize           <<rows, columns>>                           *)
(*   np.ndarray board          a function from the coordinates to Player   *)
(*   a call that may raise     [raised |-> "none", value |-> v] or         *)
(*                             [raised |-> "<exception class>"]            *)
(***************************************************************************)
EXTENDS Integers, Sequences, FiniteSets, TLC

\* Bounds of the explored configurations.
MaxRows == 2
MaxColumns == 3
MaxCells == 6

None == <<>>
Some(v) == <<v>>

Ok(v) == [raised |-> "none", value |-> v]
Raise(e) == [raised |-> e]

\* The value of a set of one element: the({e : x \in {v}}) is e with x
\* standing for the value v, which is computed once.
the(S) == CHOOSE v \in S : TRUE

Max(a, b) == IF a >= b THEN a ELSE b
Min(a, b) == IF a <= b THEN a ELSE b

(***************************************************************************)
(* core/game.py: Player                                                    *)
(***************************************************************************)
NO_PLAYER == 0
FIRST_PLAYER == 1
SECOND_PLAYER == -1

other_player(p) ==
    IF p = FIRST_PLAYER THEN Ok(SECOND_PLAYER)
    ELSE IF p = SECOND_PLAYER THEN Ok(FIRST_PLAYER)
    ELSE Raise("ValueError")

(***************************************************************************)
(* core/common/matrix_board.py                                             *)
(***************************************************************************)
\* MatrixBoardSize.contains: the bounds test (a method, not an operator).
contains(board_size, coordinates) ==
    /\ 0 <= coordinates[1] /\ coordinates[1] < board_size[1]
    /\ 0 <= coordinates[2] /\ coordinates[2] < board_size[2]

\* `x == n` for a MatrixBoardCoordinates x and an int n: a tuple never equals
\* an int.
coordinates_eq_int(coordinates, n) == FALSE

\* `coordinates in board_size`.  MatrixBoardSize is a NamedTuple that defines
\* `contains` but no __contains__, so the operator is tuple.__contains__: it
\* compares the coordinates with each of the two fields (rows, columns).
size_tuple_contains(board_size, coordinates) ==
    \E i \in DOMAIN board_size : coordinates_eq_int(coordinates, board_size[i])

coordinates_add(a, b) == <<a[1] + b[1], a[2] + b[2]>>
coordinates_sub(a, b) == <<a[1] - b[1], a[2] - b[2]>>
coordinates_mul(a, k) == <<a[1] * k, a[2] * k>>
coordinates_neg(a) == <<0 - a[1], 0 - a[2]>>

\* -> , down-right, down, down-left
HALF_INTERCARDINAL_DIRECTIONS == << <<0, 1>>, <<1, 1>>, <<1, 0>>, <<1, -1>> >>

(***************************************************************************)
(* numpy boards                                                            *)
(***************************************************************************)
Cells(board_size) == (0 .. board_size[1] - 1) \X (0 .. board_size[2] - 1)

\* np.full(board_size, Player.NO_PLAYER)
np_full(board_size, v) == [c \in Cells(board_size) |-> v]

\* board.shape: the tuple (rows, columns)
ndarray_shape(board) ==
    << Cardinality({c[1] : c \in DOMAIN board}),
       Cardinality({c[2] : c \in DOMAIN board}) >>

\* board.size: the number of elements, an int
ndarray_size(board) == Cardinality(DOMAIN board)

\* `n != board_size` for an int n and a MatrixBoardSize: always unequal.
int_ne_size_tuple(n, board_size) == TRUE

\* (board == Player.NO_PLAYER).any()
any_empty(board) == \E c \in DOMAIN board : board[c] = NO_PLAYER

\* tuple(board.flatten()): row-major
flatten(board) ==
    LET shape == ndarray_shape(board)
    IN  [i \in 1 .. ndarray_size(board) |->
            board[<<(i - 1) \div shape[2], (i - 1) % shape[2]>>]]

(***************************************************************************)
(* core/common/connect_on_matrix_board.py: ConnectOnMatrixBoardResult      *)
(***************************************************************************)
Result(winner, resignation, winning_coordinates) ==
    [winner |-> winner, resignation |-> resignation,
     winning_coordinates |-> winning_coordinates]

\* A resignation result that lacks the resignation flag.
create_resignation_unflagged(winner) == Result(winner, FALSE, None)

create_resignation(winner) == Result(winner, TRUE, None)

\* The inner function of create_from_board_and_last_move: walk from `result`
\* in direction d while the next cell is on the board and owned by player.
RECURSIVE move_while_it_matches(_, _, _, _, _, _)
move_while_it_matches(board_size, board, player, result, move_count, d) ==
    LET new_result == coordinates_add(result, d)
    IN  IF \/ ~size_tuple_contains(board_size, new_result)
           \/ board[new_result] # player
        THEN <<result, move_count>>
        ELSE move_while_it_matches(board_size, board, player, new_result,
                                   move_count + 1, d)

\* A check of the last move that reports neither a winner nor a full board.
last_move_directions_without_draw(rules, board, last_move_coordinates, k) == None

\* The loop over the directions of create_from_board_and_last_move, from
\* direction number k on.
RECURSIVE last_move_directions(_, _, _, _)
last_move_directions(rules, board, last_move_coordinates, k) ==
    IF k > Len(HALF_INTERCARDINAL_DIRECTIONS)
    THEN IF any_empty(board) THEN None
         ELSE Some(Result(NO_PLAYER, FALSE, None))
    ELSE
        LET direction == HALF_INTERCARDINAL_DIRECTIONS[k]
            player == board[last_move_coordinates]
        IN  the({LET start == back[1]
                     connected == 1 + back[2] + forth[2]
                 IN  IF connected >= rules.goal
                     THEN Some(Result(player, FALSE,
                              [i \in 1 .. connected |->
                                  coordinates_add(start,
                                      coordinates_mul(direction, i - 1))]))
                     ELSE last_move_directions(rules, board, last_move_coordinates,
                                               k + 1) :
                 back \in {move_while_it_matches(rules.board_size, board, player,
                               last_move_coordinates, 0, coordinates_neg(direction))},
                 forth \in {move_while_it_matches(rules.board_size, board, player,
                                last_move_coordinates, 0, direction)}})

create_from_board_and_last_move(rules, board, last_move_coordinates) ==
    IF ndarray_shape(board) # rules.board_size THEN Raise("ValueError")
    ELSE IF board[last_move_coordinates] = NO_PLAYER THEN Raise("ValueError")
    ELSE Ok(last_move_directions(rules, board, last_move_coordinates, 1))

\* The cell loop of create_from_board, from row-major cell number idx on.  At
\* an owned cell the counter row count[player][coordinate] (one dimension,
\* four entries) is indexed with the direction, a pair: numpy raises
\* IndexError before any count is compared with the goal.
RECURSIVE board_scan(_, _, _, _)
board_scan(rules, board, idx, has_valid_moves) ==
    IF idx >= rules.board_size[1] * rules.board_size[2]
    THEN IF has_valid_moves THEN Ok(None)
         ELSE Ok(Some(Result(NO_PLAYER, FALSE, None)))
    ELSE
        LET coordinate == <<idx \div rules.board_size[2], idx % rules.board_size[2]>>
        IN  IF board[coordinate] = NO_PLAYER
            THEN board_scan(rules, board, idx + 1, TRUE)
            ELSE Raise("IndexError")

create_from_board(rules, board) ==
    IF int_ne_size_tuple(ndarray_size(board), rules.board_size)
    THEN Raise("ValueError")
    ELSE board_scan(rules, board, 0, FALSE)

(***************************************************************************)
(* ConnectOnMatrixBoardState                                               *)
(***************************************************************************)
State(current_player, result, board) ==
    [current_player |-> current_player, result |-> result, board |-> board]

is_game_over(state) == state.result # None

\* A key that leaves the board out.
state_key_without_board(state) == <<state.current_player, state.result>>

state_key(state) == <<state.current_player, state.result, flatten(state.board)>>

state_eq(s1, s2) == state_key(s1) = state_key(s2)

\* hash(self._key()): the builtin hash is a function of the key alone.
state_hash(state) == <<"hash", state_key(state)>>

(***************************************************************************)
(* ConnectOnMatrixBoardMove                                                *)
(***************************************************************************)
\* The dataclass constructor with its __post_init__ assertion.
Move(move_index, resign, coordinates) ==
    IF resign = (coordinates # None)
    THEN Raise("AssertionError")
    ELSE Ok([move_index |-> move_index, resign |-> resign,
             coordinates |-> coordinates])

\* A MoveOrMoveIndex argument is either a Move or a plain int; the int i is
\* written [int |-> i].
PyInt(i) == [int |-> i]

\* isinstance(move, int)
is_int(move) == "int" \in DOMAIN move

(***************************************************************************)
(* ConnectOnMatrixBoardRules                                               *)
(***************************************************************************)
\* The dataclass constructor of GenericGomokuRules / ConnectFourRules with the
\* __post_init__ validation; kind names the subclass.
\* The constructor without the upper bound of the goal.
Rules_goal_unbounded(kind, board_size, goal) ==
    IF Min(board_size[1], board_size[2]) < 2 THEN Raise("ValueError")
    ELSE IF ~(2 <= goal) THEN Raise("ValueError")
    ELSE Ok([kind |-> kind, board_size |-> board_size, goal |-> goal])

Rules(kind, board_size, goal) ==
    IF Min(board_size[1], board_size[2]) < 2 THEN Raise("ValueError")
    ELSE IF ~(2 <= goal /\ goal <= Max(board_size[1], board_size[2]))
    THEN Raise("ValueError")
    ELSE Ok([kind |-> kind, board_size |-> board_size, goal |-> goal])

(***************************************************************************)
(* ConnectOnMatrixBoardEngine                                              *)
(***************************************************************************)
number_of_possible_moves(board_size) == board_size[1] * board_size[2] + 1

get_move_index_for_resign(rules) == rules.board_size[1] * rules.board_size[2]

get_move_index_for_coordinates(rules, coordinates) ==
    IF ~size_tuple_contains(rules.board_size, coordinates)
    THEN Raise("ValueError")
    ELSE Ok(coordinates[1] * rules.board_size[2] + coordinates[2])

get_coordinates_for_move_index(rules, move_index) ==
    IF ~(0 <= move_index /\ move_index < number_of_possible_moves(rules.board_size))
    THEN Raise("ValueError")
    ELSE IF move_index = get_move_index_for_resign(rules) THEN Ok(None)
    ELSE Ok(<<move_index \div rules.board_size[2],
              move_index % rules.board_size[2]>>)

validate_move(rules, move) ==
    the({IF coordinates.raised # "none" THEN coordinates
         ELSE IF coordinates.value # move.coordinates THEN Raise("ValueError")
         ELSE IF move.resign # (get_move_index_for_resign(rules) = move.move_index)
         THEN Raise("ValueError")
         ELSE Ok(None) :
         coordinates \in {get_coordinates_for_move_index(rules, move.move_index)}})

(***************************************************************************)
(* games/genericgomoku/game.py, games/connectfour/game.py                  *)
(***************************************************************************)
\* GenericGomokuEngine.new_game / ConnectFourEngine.new_game
new_game(rules) ==
    State(FIRST_PLAYER, None, np_full(rules.board_size, NO_PLAYER))

\* GenericGomokuEngine / ConnectFourEngine.create_move_from_move_index
create_move_from_move_index(rules, move_index) ==
    the({IF coordinates.raised # "none" THEN coordinates
         ELSE Move(move_index, move_index = get_move_index_for_resign(rules),
                   coordinates.value) :
         coordinates \in {get_coordinates_for_move_index(rules, move_index)}})

\* The resign move yielded last by both playable_moves generators.
resign_move(rules) == Move(get_move_index_for_resign(rules), TRUE, None)

\* The move yielded by playable_moves for an empty cell.
cell_move(rules, coordinates) ==
    the({IF move_index.raised # "none" THEN move_index
         ELSE Move(move_index.value, FALSE, coordinates) :
         move_index \in {get_move_index_for_coordinates(rules, coordinates)}})

\* GenericGomokuEngine.playable_moves, consumed to its end: the loop over
\* the cells from row-major cell number idx on, moves being what was yielded
\* so far.
RECURSIVE gomoku_playable_moves_from(_, _, _, _)
gomoku_playable_moves_from(rules, state, idx, moves) ==
    IF idx >= rules.board_size[1] * rules.board_size[2]
    THEN Ok(Append(moves, resign_move(rules).value))
    ELSE
        LET coordinates == <<idx \div rules.board_size[2], idx % rules.board_size[2]>>
        IN  IF state.board[coordinates] = NO_PLAYER
            THEN the({IF move.raised # "none" THEN move
                      ELSE gomoku_playable_moves_from(rules, state, idx + 1,
                                                      Append(moves, move.value)) :
                      move \in {cell_move(rules, coordinates)}})
            ELSE gomoku_playable_moves_from(rules, state, idx + 1, moves)

gomoku_playable_moves(rules, state) ==
    IF is_game_over(state) THEN Ok(<<>>)
    ELSE gomoku_playable_moves_from(rules, state, 0, <<>>)

\* The inner loop of ConnectFourEngine.playable_moves: the first row of the
\* column, from row on, that is the last row or lies above an owned cell.
RECURSIVE connectfour_drop_row(_, _, _, _)
connectfour_drop_row(rules, state, column, row) ==
    IF \/ row = rules.board_size[1] - 1
       \/ state.board[<<row + 1, column>>] # NO_PLAYER
    THEN row
    ELSE connectfour_drop_row(rules, state, column, row + 1)

\* ConnectFourEngine.playable_moves, consumed to its end: the loop over the
\* columns from column on.
RECURSIVE connectfour_playable_moves_from(_, _, _, _)
connectfour_playable_moves_from(rules, state, column, moves) ==
    IF column >= rules.board_size[2]
    THEN Ok(Append(moves, resign_move(rules).value))
    ELSE IF state.board[<<0, column>>] = NO_PLAYER
    THEN the({IF move.raised # "none" THEN move
              ELSE connectfour_playable_moves_from(rules, state, column + 1,
                                                   Append(moves, move.value)) :
              move \in {cell_move(rules,
                            <<connectfour_drop_row(rules, state, column, 0), column>>)}})
    ELSE connectfour_playable_moves_from(rules, state, column + 1, moves)

connectfour_playable_moves(rules, state) ==
    IF is_game_over(state) THEN Ok(<<>>)
    ELSE connectfour_playable_moves_from(rules, state, 0, <<>>)

playable_moves(rules, state) ==
    IF rules.kind = "ConnectFour" THEN connectfour_playable_moves(rules, state)
    ELSE gomoku_playable_moves(rules, state)

\* playable_moves_bitmap of both engines; position i + 1 of the sequence is
\* entry i of the tuple.
playable_moves_bitmap(rules, state) ==
    the({IF moves.raised # "none" THEN moves
         ELSE Ok([i \in 1 .. number_of_possible_moves(rules.board_size) |->
                     \E k \in DOMAIN moves.value : moves.value[k].move_index = i - 1]) :
         moves \in {playable_moves(rules, state)}})

\* The first lines of is_move_playable of both engines after the game-over
\* test: the Move for an int, the validation of a Move.
resolve_move(rules, move) ==
    IF is_int(move) THEN create_move_from_move_index(rules, move.int)
    ELSE the({IF valid.raised # "none" THEN valid ELSE Ok(move) :
              valid \in {validate_move(rules, move)}})

\* is_move_playable without the test of the target cell.
gomoku_is_move_playable_unchecked(rules, state, move) ==
    IF is_game_over(state) THEN Ok(FALSE)
    ELSE the({IF m.raised # "none" THEN m ELSE Ok(TRUE) :
              m \in {resolve_move(rules, move)}})

gomoku_is_move_playable(rules, state, move) ==
    IF is_game_over(state) THEN Ok(FALSE)
    ELSE the({IF m.raised # "none" THEN m
              ELSE IF m.value.coordinates = None THEN Ok(TRUE)
              ELSE Ok(state.board[m.value.coordinates] = NO_PLAYER) :
              m \in {resolve_move(rules, move)}})

connectfour_is_move_playable(rules, state, move) ==
    IF is_game_over(state) THEN Ok(FALSE)
    ELSE the({IF m.raised # "none" THEN m
              ELSE IF m.value.resign THEN Ok(TRUE)
              ELSE IF state.board[m.value.coordinates] = NO_PLAYER
              THEN LET next_row == m.value.coordinates[1] + 1
                   IN  IF next_row = rules.board_size[1] THEN Ok(TRUE)
                       ELSE Ok(NO_PLAYER #
                               state.board[<<next_row, m.value.coordinates[2]>>])
              ELSE Ok(FALSE) :
              m \in {resolve_move(rules, move)}})

is_move_playable(rules, state, move) ==
    IF rules.kind = "ConnectFour" THEN connectfour_is_move_playable(rules, state, move)
    ELSE gomoku_is_move_playable(rules, state, move)

\* play_move whose resignation branch leaves the mover as current_player.
play_move_resign_keeps_player(rules, state, move) ==
    the({IF m.raised # "none" THEN m
         ELSE the({
             IF playable.raised # "none" THEN playable
             ELSE IF ~playable.value THEN Raise("ValueError")
             ELSE IF m.value.resign
             THEN Ok(State(state.current_player,
                           Some(create_resignation(
                               other_player(state.current_player).value)),
                           state.board))
             ELSE the({
                 IF result.raised # "none" THEN result
                 ELSE Ok(State(other_player(state.current_player).value,
                               result.value,
                               [state.board EXCEPT
                                   ![m.value.coordinates] = state.current_player])) :
                 result \in {create_from_board_and_last_move(rules,
                                 [state.board EXCEPT
                                     ![m.value.coordinates] = state.current_player],
                                 m.value.coordinates)}}) :
             playable \in {is_move_playable(rules, state, m.value)}}) :
         m \in {IF is_int(move) THEN create_move_from_move_index(rules, move.int)
                ELSE Ok(move)}})

\* GenericGomokuEngine.play_move / ConnectFourEngine.play_move (the two
\* bodies are the same but for the classes they name).
play_move(rules, state, move) ==
    the({IF m.raised # "none" THEN m
         ELSE the({
             IF playable.raised # "none" THEN playable
             ELSE IF ~playable.value THEN Raise("ValueError")
             ELSE IF m.value.resign
             THEN Ok(State(other_player(state.current_player).value,
                           Some(create_resignation(
                               other_player(state.current_player).value)),
                           state.board))
             ELSE the({
                 IF result.raised # "none" THEN result
                 ELSE Ok(State(other_player(state.current_player).value,
                               result.value,
                               [state.board EXCEPT
                                   ![m.value.coordinates] = state.current_player])) :
                 result \in {create_from_board_and_last_move(rules,
                                 [state.board EXCEPT
                                     ![m.value.coordinates] = state.current_player],
                                 m.value.coordinates)}}) :
             playable \in {is_move_playable(rules, state, m.value)}}) :
         m \in {IF is_int(move) THEN create_move_from_move_index(rules, move.int)
                ELSE Ok(move)}})

(***************************************************************************)
(* Python floats, as exact rationals: the float n / d is <<n, d>> with     *)
(* d > 0 and n, d coprime, so that == is equality of the pairs.            *)
(***************************************************************************)
abs(n) == IF n < 0 THEN 0 - n ELSE n

RECURSIVE gcd(_, _)
gcd(a, b) == IF b = 0 THEN a ELSE gcd(b, a % b)

float(n, d) ==
    LET s == IF d < 0 THEN 0 - 1 ELSE 1
        g == gcd(abs(n), abs(d))
    IN  <<(s * n) \div g, (s * d) \div g>>

float_add(a, b) == float(a[1] * b[2] + b[1] * a[2], a[2] * b[2])
float_sub(a, b) == float(a[1] * b[2] - b[1] * a[2], a[2] * b[2])
float_mul(a, b) == float(a[1] * b[1], a[2] * b[2])

\* a / b; a float division by zero raises ZeroDivisionError.
float_div(a, b) ==
    IF b[1] = 0 THEN Raise("ZeroDivisionError")
    ELSE Ok(float(a[1] * b[2], a[2] * b[1]))

float_lt(a, b) == a[1] * b[2] < b[1] * a[2]
float_le(a, b) == a[1] * b[2] <= b[1] * a[2]
float_max(a, b) == IF float_lt(a, b) THEN b ELSE a

\* a ** k for an int k >= 0
RECURSIVE float_pow(_, _)
float_pow(a, k) == IF k = 0 THEN <<1, 1>> ELSE float_mul(a, float_pow(a, k - 1))

\* sum(items) of a tuple of floats
RECURSIVE float_sum(_)
float_sum(items) ==
    IF items = <<>> THEN <<0, 1>>
    ELSE float_add(items[1], float_sum(Tail(items)))

\* max(items) of a tuple of floats; max of an empty tuple raises ValueError.
RECURSIVE float_max_of(_)
float_max_of(items) ==
    IF Len(items) = 1 THEN items[1]
    ELSE float_max(items[1], float_max_of(Tail(items)))

(***************************************************************************)
(* ai/base.py: EvaluationResult.  A tuple of floats is a sequence;         *)
(* position i + 1 of the sequence is entry i of the tuple.                 *)
(***************************************************************************)
\* The dataclass constructor with the assertions of __post_init__.
EvaluationResult(win_rate, move_policy) ==
    IF ~(float_le(<<0, 1>>, win_rate) /\ float_le(win_rate, <<1, 1>>))
    THEN Raise("AssertionError")
    ELSE IF ~(\A i \in DOMAIN move_policy : float_le(<<0, 1>>, move_policy[i]))
    THEN Raise("AssertionError")
    ELSE IF ~(\E i \in DOMAIN move_policy : float_lt(<<0, 1>>, move_policy[i]))
    THEN Raise("AssertionError")
    ELSE Ok([win_rate |-> win_rate, move_policy |-> move_policy])

\* `if playable_moves_bitmap:` - None and the empty tuple are false.
bitmap_given(moves_bitmap) ==
    moves_bitmap # None /\ moves_bitmap[1] # <<>>

\* The first step of create: the scores outside the bitmap become 0.
create_restricted(move_policy, moves_bitmap) ==
    IF ~bitmap_given(moves_bitmap) THEN Ok(move_policy)
    ELSE IF Len(move_policy) # Len(moves_bitmap[1])
    THEN Raise("AssertionError")
    ELSE Ok([i \in DOMAIN move_policy |->
                IF moves_bitmap[1][i] THEN move_policy[i] ELSE <<0, 1>>])

\* policy ** (1 / temperature) for a temperature whose reciprocal is an
\* int k (temperature 1, 1/2, -1, ...): policy ** k, and 0. ** k raises
\* ZeroDivisionError for k < 0.
policy_power(policy, temperature) ==
    LET k == IF temperature[1] < 0 THEN 0 - (temperature[2] \div abs(temperature[1]))
             ELSE temperature[2] \div temperature[1]
    IN  IF k >= 0 THEN Ok(float_pow(policy, k))
        ELSE IF policy[1] = 0 THEN Raise("ZeroDivisionError")
        ELSE Ok(float_pow(float(policy[2], policy[1]), 0 - k))

\* The second step of create: the temperature.
create_tempered(move_policy, temperature) ==
    IF temperature = None THEN Ok(move_policy)
    ELSE IF temperature[1] = <<0, 1>>
    THEN IF move_policy = <<>> THEN Raise("ValueError")
         ELSE LET max_policy == float_max_of(move_policy)
              IN  Ok([i \in DOMAIN move_policy |->
                         IF move_policy[i] = max_policy THEN <<1, 1>> ELSE <<0, 1>>])
    ELSE LET powers == [i \in DOMAIN move_policy |->
                           policy_power(move_policy[i], temperature[1])]
         IN  IF \E i \in DOMAIN powers : powers[i].raised # "none"
             THEN Raise("ZeroDivisionError")
             ELSE Ok([i \in DOMAIN move_policy |-> powers[i].value])

\* The third step of create: every score divided by the sum of the scores.
create_normalized(move_policy, normalize) ==
    IF ~normalize THEN Ok(move_policy)
    ELSE LET policy_sum == float_sum(move_policy)
         IN  IF move_policy # <<>> /\ policy_sum[1] = 0
             THEN Raise("ZeroDivisionError")
             ELSE Ok([i \in DOMAIN move_policy |->
                         float_div(move_policy[i], policy_sum).value])

\* create that leaves the legality bitmap out.
create_unrestricted(win_rate, move_policy, moves_bitmap, temperature, normalize) ==
    the({IF tempered.raised # "none" THEN tempered
         ELSE the({
             IF normalized.raised # "none" THEN normalized
             ELSE EvaluationResult(win_rate, normalized.value) :
             normalized \in {create_normalized(tempered.value, normalize)}}) :
         tempered \in {create_tempered(move_policy, temperature)}})

\* EvaluationResult.create; playable_moves_bitmap (moves_bitmap) and temperature are
\* Optional.
create(win_rate, move_policy, moves_bitmap, temperature, normalize) ==
    the({IF restricted.raised # "none" THEN restricted
         ELSE the({
             IF tempered.raised # "none" THEN tempered
             ELSE the({
                 IF normalized.raised # "none" THEN normalized
                 ELSE EvaluationResult(win_rate, normalized.value) :
                 normalized \in {create_normalized(tempered.value, normalize)}}) :
             tempered \in {create_tempered(restricted.value, temperature)}}) :
         restricted \in {create_restricted(move_policy, moves_bitmap)}})

(***************************************************************************)
(* ai/algorithms/util.py                                                   *)
(***************************************************************************)
result_for_player(player, result) ==
    IF player \notin {FIRST_PLAYER, SECOND_PLAYER} THEN Raise("ValueError")
    ELSE IF result.winner = NO_PLAYER THEN Ok(<<1, 2>>)
    ELSE IF result.winner = player THEN Ok(<<1, 1>>)
    ELSE IF result.winner = other_player(player).value THEN Ok(<<0, 1>>)
    ELSE Raise("ValueError")

(***************************************************************************)
(* ai/algorithms/hash_policy.py.  A StateHashPolicy is a dict keyed by     *)
(* State: a function whose domain holds the keys (_key()) of its states.   *)
(* A HashPolicy object is the record of its rules, policy and config.      *)
(***************************************************************************)
\* StateHashPolicy()
StateHashPolicy == [k \in {} |-> <<0, 1>>]

\* StateHashPolicy.__missing__
missing(state) ==
    IF is_game_over(state)
    THEN result_for_player(state.current_player, state.result[1])
    ELSE Ok(<<1, 2>>)

\* self.policy[state]; __missing__ stores nothing.
policy_getitem(policy, state) ==
    IF state_key(state) \in DOMAIN policy THEN Ok(policy[state_key(state)])
    ELSE missing(state)

\* self[state] = value
policy_setitem(policy, state, value) ==
    [k \in DOMAIN policy \cup {state_key(state)} |->
        IF k = state_key(state) THEN value ELSE policy[k]]

\* StateHashPolicy.update_policy
update_policy(policy, state, desired_policy, learning_rate) ==
    the({IF old.raised # "none" THEN old
         ELSE Ok(policy_setitem(policy, state,
                     float_add(old.value,
                               float_mul(float_sub(desired_policy, old.value),
                                         learning_rate)))) :
         old \in {policy_getitem(policy, state)}})

HashPolicyConfig(learning_rate, exploration_rate, valid_move_min_value, temperature) ==
    [learning_rate |-> learning_rate, exploration_rate |-> exploration_rate,
     valid_move_min_value |-> valid_move_min_value, temperature |-> temperature]

\* The default of HashPolicyConfig.valid_move_min_value.
valid_move_min_value == <<1, 1000000>>

\* HashPolicy.__init__
HashPolicy(hash_rules, policy, config) ==
    [class |-> "HashPolicy", rules |-> hash_rules, policy |-> policy,
     config |-> config]

\* The last lines of evaluate_move without max(..., valid_move_min_value).
move_value_unclamped(self, state, next_state) ==
    the({IF next_state_policy.raised # "none" THEN next_state_policy
         ELSE IF next_state.current_player = state.current_player
         THEN Ok(next_state_policy.value)
         ELSE Ok(float_sub(<<1, 1>>, next_state_policy.value)) :
         next_state_policy \in {policy_getitem(self.policy, next_state)}})

\* The last lines of evaluate_move without the inversion: the value of the
\* next state as its own player sees it.
move_value_same_side(self, state, next_state) ==
    the({IF next_state_policy.raised # "none" THEN next_state_policy
         ELSE Ok(float_max(next_state_policy.value, self.config.valid_move_min_value)) :
         next_state_policy \in {policy_getitem(self.policy, next_state)}})

\* The last lines of evaluate_move: the value of the next state seen by the
\* player of state.
move_value(self, state, next_state) ==
    the({IF next_state_policy.raised # "none" THEN next_state_policy
         ELSE IF next_state.current_player = state.current_player
         THEN Ok(float_max(next_state_policy.value, self.config.valid_move_min_value))
         ELSE IF other_player(state.current_player).raised # "none"
         THEN other_player(state.current_player)
         ELSE IF next_state.current_player = other_player(state.current_player).value
         THEN Ok(float_max(float_sub(<<1, 1>>, next_state_policy.value),
                           self.config.valid_move_min_value))
         ELSE Raise("ValueError") :
         next_state_policy \in {policy_getitem(self.policy, next_state)}})

\* HashPolicy.evaluate_move
evaluate_move(self, state, move_index) ==
    IF move_index = get_move_index_for_resign(self.rules) THEN Ok(<<0, 1>>)
    ELSE
    the({IF playable.raised # "none" THEN playable
         ELSE IF ~playable.value THEN Ok(<<0, 1>>)
         ELSE the({IF next_state.raised # "none" THEN next_state
                   ELSE move_value(self, state, next_state.value) :
                   next_state \in {play_move(self.rules, state, PyInt(move_index))}}) :
         playable \in {is_move_playable(self.rules, state, PyInt(move_index))}})

\* HashPolicy.evaluate
hash_policy_evaluate(self, state) ==
    the({IF win_rate.raised # "none" THEN win_rate
         ELSE IF \E i \in DOMAIN moves : moves[i].raised # "none"
         THEN moves[CHOOSE i \in DOMAIN moves :
                        /\ moves[i].raised # "none"
                        /\ \A j \in 1 .. i - 1 : moves[j].raised = "none"]
         ELSE create(win_rate.value, [i \in DOMAIN moves |-> moves[i].value],
                     None, Some(self.config.temperature), FALSE) :
         win_rate \in {policy_getitem(self.policy, state)},
         moves \in {[i \in 1 .. number_of_possible_moves(self.rules.board_size) |->
                        evaluate_move(self, state, i - 1)]}})

\* EvaluationResult.pick_move: random.choices never returns an index of
\* weight 0; the set of the indices it can return.
pick_move(evaluation_result) ==
    {i - 1 : i \in {j \in DOMAIN evaluation_result.move_policy :
                        evaluation_result.move_policy[j][1] > 0}}

\* The outcomes of the branch of HashPolicy.play_move taken when
\* random.random() < exploration_rate.
play_move_exploring(self, state) ==
    the({IF moves.raised # "none" THEN {moves}
         ELSE LET kept == {i \in DOMAIN moves.value : ~moves.value[i].resign}
              IN  IF kept = {} THEN {Raise("IndexError")}
                  ELSE {Ok(moves.value[i]) : i \in kept} :
         moves \in {playable_moves(self.rules, state)}})

\* The outcomes of the other branch.
play_move_evaluating(self, state) ==
    the({IF evaluated.raised # "none" THEN {evaluated}
         ELSE {Ok(PyInt(i)) : i \in pick_move(evaluated.value)} :
         evaluated \in {hash_policy_evaluate(self, state)}})

\* `random.random() < self.config.exploration_rate` of HashPolicy.play_move:
\* the values it can have; random.random() is in [0, 1).
play_move_explores(self) ==
    (IF self.config.exploration_rate[1] > 0 THEN {TRUE} ELSE {})
        \cup
    (IF float_lt(self.config.exploration_rate, <<1, 1>>) THEN {FALSE} ELSE {})

\* HashPolicy.play_move where the comparison with the random number gives
\* explores: the set of its outcomes.
hash_policy_play_move_when(self, state, explores) ==
    IF is_game_over(state) THEN {Raise("ValueError")}
    ELSE IF explores THEN play_move_exploring(self, state)
    ELSE play_move_evaluating(self, state)

\* HashPolicy.play_move: the set of its outcomes over the random numbers
\* drawn.
hash_policy_play_move(self, state) ==
    UNION {hash_policy_play_move_when(self, state, explores) :
               explores \in play_move_explores(self)}

\* An object after a call and what the call gave.
Left(self, out) == [self |-> self, out |-> out]

\* The generator of create_training_data_for_game from position i of states
\* on; data holds the (state, EvaluationResult) pairs made so far.  The
\* bools of the bitmap are the scores 1. and 0. of the move_policy.
RECURSIVE training_data_from(_, _, _, _, _)
training_data_from(self, result, states, i, data) ==
    IF i > Len(states) THEN Ok(data)
    ELSE IF is_game_over(states[i])
    THEN training_data_from(self, result, states, i + 1, data)
    ELSE the({
        IF win_rate.raised # "none" THEN win_rate
        ELSE the({
            IF bitmap.raised # "none" THEN bitmap
            ELSE the({
                IF evaluation_result.raised # "none" THEN evaluation_result
                ELSE training_data_from(self, result, states, i + 1,
                         Append(data, <<states[i], evaluation_result.value>>)) :
                evaluation_result \in
                    {create(win_rate.value,
                            [k \in DOMAIN bitmap.value |->
                                IF bitmap.value[k] THEN <<1, 1>> ELSE <<0, 1>>],
                            None, None, FALSE)}}) :
            bitmap \in {playable_moves_bitmap(self.rules, states[i])}}) :
        win_rate \in {result_for_player(states[i].current_player, result)}})

\* HashPolicy.create_training_data_for_game: the data of the TrainingData
create_training_data_for_game(self, result, states) ==
    training_data_from(self, result, states, 1, <<>>)

\* The loop of HashPolicy.train from position i of training_data on.
RECURSIVE train_from(_, _, _)
train_from(self, training_data, i) ==
    IF i > Len(training_data) THEN Left(self, Ok("TrainingSummary"))
    ELSE the({
        IF updated.raised # "none" THEN Left(self, updated)
        ELSE train_from([self EXCEPT !.policy = updated.value], training_data, i + 1) :
        updated \in {update_policy(self.policy, training_data[i][1],
                                   training_data[i][2].win_rate,
                                   self.config.learning_rate)}})

\* HashPolicy.train
hash_policy_train(self, training_data) == train_from(self, training_data, 1)

(***************************************************************************)
(* ai/algorithms/min_max.py.  A MinMaxEvaluator is the record of its rules *)
(* and of its score memo, a dict keyed by State.  A method that can write  *)
(* the memo gives the evaluator it leaves together with its outcome.       *)
(***************************************************************************)
\* MinMaxEvaluator.__init__
MinMaxEvaluator(min_max_rules) ==
    [class |-> "MinMaxEvaluator", rules |-> min_max_rules,
     score |-> [k \in {} |-> <<0, 1>>]]

\* MinMaxEvaluator.supports_rules
min_max_supports_rules(self, other_rules) == self.rules = other_rules

\* _score_move whose result ignores whose turn it is in the next state.
score_from_next_state_same_side(state, next_state, next_state_score) ==
    Ok(next_state_score)

\* The last lines of _score_move: the score of the next state seen by the
\* player of state.
score_from_next_state(state, next_state, next_state_score) ==
    IF state.current_player = next_state.current_player THEN Ok(next_state_score)
    ELSE IF other_player(state.current_player).raised # "none"
    THEN other_player(state.current_player)
    ELSE IF other_player(state.current_player).value = next_state.current_player
    THEN Ok(float_sub(<<1, 1>>, next_state_score))
    ELSE Raise("ValueError")

RECURSIVE score_state(_, _), score_move(_, _, _), move_policy_from(_, _, _, _, _)

\* MinMaxEvaluator._score_state
score_state(self, state) ==
    IF state_key(state) \in DOMAIN self.score
    THEN Left(self, Ok(self.score[state_key(state)]))
    ELSE IF is_game_over(state)
    THEN LET scored == result_for_player(state.current_player, state.result[1])
         IN  IF scored.raised # "none" THEN Left(self, scored)
             ELSE Left([self EXCEPT !.score = (state_key(state) :> scored.value) @@ @],
                       scored)
    ELSE LET policy == move_policy_from(self, state, <<0, 1>>, 0, <<>>)
         IN  IF policy.out.raised # "none" THEN policy
             ELSE IF policy.out.value = <<>> THEN Left(policy.self, Raise("ValueError"))
             ELSE LET best == float_max_of(policy.out.value)
                  IN  Left([policy.self EXCEPT
                                !.score = (state_key(state) :> best) @@ @],
                           Ok(best))

\* MinMaxEvaluator._score_move
score_move(self, state, move) ==
    LET playable == is_move_playable(self.rules, state, move)
    IN  IF playable.raised # "none" THEN Left(self, playable)
        ELSE IF ~playable.value THEN Left(self, Ok(<<0, 1>>))
        ELSE LET next_state == play_move(self.rules, state, move)
             IN  IF next_state.raised # "none" THEN Left(self, next_state)
                 ELSE LET scored == score_state(self, next_state.value)
                      IN  IF scored.out.raised # "none" THEN scored
                          ELSE Left(scored.self,
                                    score_from_next_state(state, next_state.value,
                                                          scored.out.value))

\* The generator of _get_move_policy from move_index on; scores holds the
\* entries already produced.
move_policy_from(self, state, min_for_playable_moves, move_index, scores) ==
    IF move_index >= number_of_possible_moves(self.rules.board_size)
    THEN Left(self, Ok(scores))
    ELSE LET playable == is_move_playable(self.rules, state, PyInt(move_index))
         IN  IF playable.raised # "none" THEN Left(self, playable)
             ELSE IF ~playable.value
             THEN move_policy_from(self, state, min_for_playable_moves, move_index + 1,
                                   Append(scores, <<0, 1>>))
             ELSE LET move_score == score_move(self, state, PyInt(move_index))
                  IN  IF move_score.out.raised # "none" THEN move_score
                      ELSE move_policy_from(move_score.self, state,
                               min_for_playable_moves, move_index + 1,
                               Append(scores, float_max(move_score.out.value,
                                                        min_for_playable_moves)))

\* MinMaxEvaluator._get_move_policy
get_move_policy(self, state, min_for_playable_moves) ==
    move_policy_from(self, state, min_for_playable_moves, 0, <<>>)

\* The State with the given _key(), on the board of the rules.
state_of_key(min_max_rules, key) ==
    State(key[1], key[2],
          [c \in Cells(min_max_rules.board_size) |->
              key[3][c[1] * min_max_rules.board_size[2] + c[2] + 1]])

\* The states with n pieces on the board that are not over: the players
\* alternate and the first player starts (every state a game reaches from
\* new_game is one of them).
states_with_pieces(min_max_rules, n) ==
    {State(IF n % 2 = 0 THEN FIRST_PLAYER ELSE SECOND_PLAYER, None, board) :
        board \in {b \in [Cells(min_max_rules.board_size) ->
                              {NO_PLAYER, FIRST_PLAYER, SECOND_PLAYER}] :
                      /\ Cardinality({c \in DOMAIN b : b[c] = FIRST_PLAYER}) = (n + 1) \div 2
                      /\ Cardinality({c \in DOMAIN b : b[c] = SECOND_PLAYER}) = n \div 2}}

\* The entries that _score_state(new_game()) leaves in self.score, by the
\* number of pieces on the board: entry 1 of the sequence is for the states
\* with n pieces, the next one for n + 1 pieces, and so on.  scores holds the
\* entries of the states that are not over and over the keys of the next
\* states that are over.  _score_state scores a state after every state its
\* moves lead to, so the entries it reads for a state with n pieces are
\* those of the states with n + 1 pieces (deeper), or the next state is over
\* and result_for_player scores it.  Each table is built whole before it is
\* read.  scores_over is the entry for the states with n pieces, given the
\* entries deeper of the states with more pieces.
scores_over(min_max_rules, n, deeper) ==
    LET keys == {state_key(state) : state \in states_with_pieces(min_max_rules, n)}
        moves == 1 .. number_of_possible_moves(min_max_rules.board_size)
        \* the next state of every playable move of every state
        next_states ==
            [key \in keys |->
                LET state == state_of_key(min_max_rules, key)
                IN  [i \in moves |->
                        IF is_move_playable(min_max_rules, state, PyInt(i - 1)).value
                        THEN Some(play_move(min_max_rules, state, PyInt(i - 1)).value)
                        ELSE None]] @@ <<>>
        next_state_score(next_state) ==
            IF is_game_over(next_state)
            THEN result_for_player(next_state.current_player, next_state.result[1]).value
            ELSE deeper[1].scores[state_key(next_state)]
        score(key, i) ==
            IF next_states[key][i] # None
            THEN score_from_next_state(state_of_key(min_max_rules, key),
                                       next_states[key][i][1],
                                       next_state_score(next_states[key][i][1])).value
            ELSE <<0, 1>>
    IN  <<[scores |-> [key \in keys |->
                         float_max_of([i \in moves |-> score(key, i)])] @@ <<>>,
           over |-> UNION {{state_key(next_states[key][i][1]) :
                               i \in {j \in moves :
                                         /\ next_states[key][j] # None
                                         /\ is_game_over(next_states[key][j][1])}} :
                           key \in keys}]>>

\* The entries of the states with n pieces and more: the deeper entries are
\* built first, as _score_state returns from the deepest states first.
RECURSIVE scores_with_pieces(_, _)
scores_with_pieces(min_max_rules, n) ==
    the({scores_over(min_max_rules, n, deeper) \o deeper :
         deeper \in {IF n + 1 < Cardinality(Cells(min_max_rules.board_size))
                     THEN scores_with_pieces(min_max_rules, n + 1)
                     ELSE <<>>}})

\* _score_state(new_game()) that takes the score of the last move,
\* resignation, where the code takes max(self._get_move_policy(state)).
score_new_game_of_resignation(self) ==
    LET resigned == play_move(self.rules, new_game(self.rules),
                              PyInt(get_move_index_for_resign(self.rules))).value
        resigned_score == result_for_player(resigned.current_player,
                                            resigned.result[1]).value
        scored == score_from_next_state(new_game(self.rules), resigned,
                                        resigned_score).value
    IN  Left([self EXCEPT !.score = (state_key(resigned) :> resigned_score)
                                        @@ (state_key(new_game(self.rules)) :> scored)],
             Ok(scored))

\* _score_state(new_game()) on an evaluator whose memo is empty, read from
\* the entries above.
score_new_game(self) ==
    LET entries == scores_with_pieces(self.rules, 0)
        pieces(key) == Cardinality({i \in DOMAIN key[3] : key[3][i] # NO_PLAYER})
        keys == UNION {DOMAIN entries[n].scores \cup entries[n].over : n \in DOMAIN entries}
        scores == [key \in keys |->
                      IF key[2] # None THEN result_for_player(key[1], key[2][1]).value
                      ELSE entries[pieces(key) + 1].scores[key]]
    IN  Left([self EXCEPT !.score = scores],
             Ok(entries[1].scores[state_key(new_game(self.rules))]))

\* MinMaxEvaluator.evaluate: ai/evaluator.py's EvaluationResult has no
\* attribute normalize_and_create, and the attribute is looked up before
\* the arguments are evaluated.
min_max_evaluate(self, state) == Left(self, Raise("AttributeError"))

\* MinMaxEvaluator.train that returns without a word.
min_max_train_silent(self, learning_data) == Left(self, Ok(None))

\* MinMaxEvaluator.train
min_max_train(self, learning_data) == Left(self, Raise("TypeError"))

(***************************************************************************)
(* ai/algorithms/pure_montecarlo.py.  A PureMonteCarloTreeSearch is the    *)
(* record of its rules, config, nodes (a dict keyed by State) and          *)
(* discovered_states (the keys of that dict).  A _Node is a record; its    *)
(* _MoveInfo objects live in its moves, and a (node, move_info) pair of    *)
(* node_moves is the key of the node with the position of the move.  What  *)
(* random.choice may return makes a method a set of outcomes.              *)
(***************************************************************************)
\* PureMonteCarloTreeSearch.Config
PureConfig(number_of_simulations, exploration_rate, max_time_sec) ==
    [number_of_simulations |-> number_of_simulations,
     exploration_rate |-> exploration_rate, max_time_sec |-> max_time_sec]

\* PureMonteCarloTreeSearch.__init__
PureMonteCarloTreeSearch(search_rules, config) ==
    [class |-> "PureMonteCarloTreeSearch", rules |-> search_rules, config |-> config,
     nodes |-> [k \in {} |-> <<>>], discovered_states |-> {}]

\* PureMonteCarloTreeSearch.supports_rules
pure_supports_rules(self, other_rules) == self.rules = other_rules

\* ai/evaluator.py: EvaluationResult, a NamedTuple without checks
evaluator_EvaluationResult(win_rate, move_policy) ==
    [win_rate |-> win_rate, move_policy |-> move_policy]

\* _MoveInfo(move_index, next_state)
pure_MoveInfo(move_index, next_state) ==
    [move_index |-> move_index, next_state |-> next_state,
     exploration_wins |-> <<0, 1>>, exploration_count |-> 0]

\* _MoveInfo.win_ratio
pure_win_ratio(move_info) ==
    IF move_info.exploration_count = 0 THEN <<1, 2>>
    ELSE float_div(move_info.exploration_wins, <<move_info.exploration_count, 1>>).value

\* _Node.__init__
pure_Node(state) ==
    IF is_game_over(state) THEN Raise("AssertionError")
    ELSE Ok([state |-> state, total_exploration_count |-> 0, moves |-> <<>>])

\* _Node.expand of the node of state.  engine.playable_moves raises before
\* it yields or not at all, so it is consumed first; create_move_info then
\* runs move by move and stops at the first play_move that raises.
pure_expand(self, state) ==
    the({IF moves.raised # "none" THEN Left(self, moves)
         ELSE the({
             LET failed == {i \in DOMAIN next_states : next_states[i].raised # "none"}
                 first == IF failed = {} THEN Len(moves.value) + 1
                          ELSE CHOOSE i \in failed : \A j \in failed : i <= j
                 discovered == self.discovered_states
                                   \cup {state_key(next_states[i].value) : i \in 1 .. first - 1}
             IN  IF failed # {}
                 THEN Left([self EXCEPT !.discovered_states = discovered],
                           next_states[first])
                 ELSE Left([self EXCEPT
                               !.discovered_states = discovered,
                               !.nodes[state_key(state)].moves =
                                   [i \in DOMAIN moves.value |->
                                       pure_MoveInfo(moves.value[i].move_index,
                                                     next_states[i].value)]],
                           Ok(None)) :
             next_states \in {[i \in DOMAIN moves.value |->
                                  play_move(self.rules, state, moves.value[i])]}}) :
         moves \in {playable_moves(self.rules, state)}})

\* util.pick_one_of_highest(items, key), given the keys of the items: the
\* positions it may return.
pick_one_of_highest(keys) ==
    {i \in DOMAIN keys : \A j \in DOMAIN keys : float_le(keys[j], keys[i])}

\* math.sqrt(math.log(1 + total) / (1 + count)) in thousandths, rounded:
\* row total (1 to 5), column count + 1 (count 0 to 5).  With
\* exploration_rate 1.4 and these counts two uct values that differ do so by
\* more than 0.0019, so the rounding keeps their order.
sqrt_log_ratio ==
    << <<833, 589, 481, 416, 372, 340>>,
       <<1048, 741, 605, 524, 469, 428>>,
       <<1177, 833, 680, 589, 527, 481>>,
       <<1269, 897, 732, 634, 567, 518>>,
       <<1339, 947, 773, 669, 599, 546>> >>

\* _Node.uct: a fraction where no move was explored yet or there is no
\* exploration term, the value with the rounded square root for the counts
\* above, and None (not computed) for higher counts.
pure_uct(node, move_info, exploration_rate) ==
    IF node.total_exploration_count = 0 THEN Some(<<1, 1>>)
    ELSE IF exploration_rate = <<0, 1>> THEN Some(pure_win_ratio(move_info))
    ELSE IF /\ node.total_exploration_count \in DOMAIN sqrt_log_ratio
            /\ move_info.exploration_count + 1
                   \in DOMAIN sqrt_log_ratio[node.total_exploration_count]
    THEN Some(float_add(pure_win_ratio(move_info),
                        float_mul(exploration_rate,
                                  <<sqrt_log_ratio[node.total_exploration_count]
                                                  [move_info.exploration_count + 1],
                                    1000>>)))
    ELSE None

\* _Node.play_move: the positions in self.moves of the moves it may return.
\* Where uct is not computed every move may be the highest.
pure_node_play_move(node, exploration_rate) ==
    IF is_game_over(node.state) THEN {Raise("AssertionError")}
    ELSE IF node.moves = <<>> THEN {Raise("AssertionError")}
    ELSE LET uct == [i \in DOMAIN node.moves |->
                        pure_uct(node, node.moves[i], exploration_rate)]
         IN  IF \E i \in DOMAIN uct : uct[i] = None
             THEN {Ok(i) : i \in DOMAIN node.moves}
             ELSE {Ok(i) : i \in pick_one_of_highest([i \in DOMAIN uct |-> uct[i][1]])}

\* _Node.best_move
pure_best_move(node) == pure_node_play_move(node, <<0, 1>>)

\* _Node.move_policy_dict, written into the list of evaluate: position
\* i + 1 is the entry of move index i.
pure_move_policy(self, node) ==
    [i \in 1 .. number_of_possible_moves(self.rules.board_size) |->
        IF \E m \in DOMAIN node.moves : node.moves[m].move_index = i - 1
        THEN pure_win_ratio(node.moves[CHOOSE m \in DOMAIN node.moves :
                                           node.moves[m].move_index = i - 1])
        ELSE <<0, 1>>]

\* _Node.update that keeps the statistics of the updated move only: the other
\* moves of the node are counted from zero again.
pure_update_forgetting(self, key, index, result) ==
    LET node == self.nodes[key]
        result_value == result_for_player(node.state.current_player, result)
    IN  IF result_value.raised # "none" THEN Left(self, result_value)
        ELSE Left([self EXCEPT
                      !.nodes[key].total_exploration_count = @ + 1,
                      !.nodes[key].moves =
                          [i \in DOMAIN @ |->
                              IF i = index
                              THEN [@[i] EXCEPT
                                       !.exploration_count = @ + 1,
                                       !.exploration_wins =
                                           float_add(@, result_value.value)]
                              ELSE [@[i] EXCEPT
                                       !.exploration_count = 0,
                                       !.exploration_wins = <<0, 1>>]]],
                  Ok(None))

\* _Node.update of the node with the given key and its move at position
\* index
pure_update(self, key, index, result) ==
    LET node == self.nodes[key]
        result_value == result_for_player(node.state.current_player, result)
    IN  IF result_value.raised # "none" THEN Left(self, result_value)
        ELSE Left([self EXCEPT
                      !.nodes[key].total_exploration_count = @ + 1,
                      !.nodes[key].moves[index].exploration_count = @ + 1,
                      !.nodes[key].moves[index].exploration_wins =
                          float_add(@, result_value.value)],
                  Ok(None))

\* The selection and expansion loop of simulation: each outcome is the
\* search it leaves, the state and the node_moves reached, and what was
\* raised.
RECURSIVE pure_select(_, _, _, _)
pure_select(self, state, node_moves, expanded) ==
    IF is_game_over(state) \/ expanded
    THEN {[self |-> self, state |-> state, node_moves |-> node_moves, out |-> Ok(None)]}
    ELSE the({
        LET known == key \in DOMAIN self.nodes
        IN  the({
            IF grown.out.raised # "none"
            THEN {[self |-> grown.self, state |-> state, node_moves |-> node_moves,
                   out |-> grown.out]}
            ELSE UNION {IF picked.raised # "none"
                        THEN {[self |-> grown.self, state |-> state,
                               node_moves |-> node_moves, out |-> picked]}
                        ELSE pure_select(grown.self,
                                 grown.self.nodes[key].moves[picked.value].next_state,
                                 Append(node_moves, <<key, picked.value>>),
                                 ~known) :
                        picked \in pure_node_play_move(grown.self.nodes[key],
                                                       self.config.exploration_rate)} :
            grown \in {IF known THEN Left(self, Ok(None))
                       ELSE pure_expand([self EXCEPT
                                            !.nodes = (key :> pure_Node(state).value) @@ @],
                                        state)}}) :
        key \in {state_key(state)}})

\* The rollout loop of simulation: the states it may end in.
RECURSIVE pure_rollout(_, _)
pure_rollout(search_rules, state) ==
    IF is_game_over(state) THEN {Ok(state)}
    ELSE the({
        IF moves.raised # "none" THEN {moves}
        ELSE LET kept == {i \in DOMAIN moves.value : ~moves.value[i].resign}
             IN  IF kept = {} THEN {Raise("IndexError")}
                 ELSE UNION {the({IF next_state.raised # "none" THEN {next_state}
                                  ELSE pure_rollout(search_rules, next_state.value) :
                                  next_state \in {play_move(search_rules, state,
                                                            moves.value[i])}}) :
                             i \in kept} :
        moves \in {playable_moves(search_rules, state)}})

\* The backpropagation loop of simulation.
RECURSIVE pure_backpropagate(_, _, _)
pure_backpropagate(self, result, node_moves) ==
    IF node_moves = <<>> THEN Left(self, Ok(None))
    ELSE the({IF updated.out.raised # "none" THEN updated
              ELSE pure_backpropagate(updated.self, result, Tail(node_moves)) :
              updated \in {pure_update(self, node_moves[1][1], node_moves[1][2],
                                       result)}})

\* PureMonteCarloTreeSearch.simulation
pure_simulation(self, state) ==
    UNION {IF selected.out.raised # "none" THEN {Left(selected.self, selected.out)}
           ELSE {IF rolled.raised # "none" THEN Left(selected.self, rolled)
                 ELSE pure_backpropagate(selected.self, rolled.value.result[1],
                                         selected.node_moves) :
                 rolled \in pure_rollout(self.rules, selected.state)} :
           selected \in pure_select(self, state, <<>>, FALSE)}

\* k calls of simulation in a row, up to the first that raises.
RECURSIVE pure_simulations(_, _, _)
pure_simulations(self, state, k) ==
    IF k = 0 THEN {Left(self, Ok(None))}
    ELSE UNION {IF one.out.raised # "none" THEN {one}
                ELSE pure_simulations(one.self, state, k - 1) :
                one \in pure_simulation(self, state)}

\* The numbers of simulations the loop of evaluate / play_move may run: all
\* of them, or fewer when max_time_sec is set and the clock passes it.
simulations_run(config) ==
    IF config.max_time_sec = None \/ config.max_time_sec = Some(<<0, 1>>)
    THEN {config.number_of_simulations}
    ELSE 0 .. config.number_of_simulations

\* The lines of evaluate after the loop.
pure_evaluation(self, state) ==
    IF state_key(state) \notin DOMAIN self.nodes THEN {Raise("KeyError")}
    ELSE LET node == self.nodes[state_key(state)]
         IN  {IF best.raised # "none" THEN best
              ELSE Ok(evaluator_EvaluationResult(pure_win_ratio(node.moves[best.value]),
                                                 pure_move_policy(self, node))) :
              best \in pure_best_move(node)}

\* PureMonteCarloTreeSearch.evaluate when the loop runs k simulations
pure_evaluate(self, state, k) ==
    IF is_game_over(state) THEN {Left(self, Raise("AssertionError"))}
    ELSE UNION {IF ran.out.raised # "none" THEN {ran}
                ELSE {Left(ran.self, out) : out \in pure_evaluation(ran.self, state)} :
                ran \in pure_simulations(self, state, k)}

\* PureMonteCarloTreeSearch.train
pure_train(self, result, states) == Left(self, Raise("TypeError"))

(***************************************************************************)
(* ai/algorithms/montecarlo.py.  A MonteCarloTreeSearch is the record of   *)
(* its rules, evaluator, config and nodes, a dict keyed by State that      *)
(* creates the _Node of a missing state.  The next_node of a _MoveInfo is  *)
(* the key of that node.  The evaluator is a HashPolicy or a               *)
(* MinMaxEvaluator; evaluate of neither changes the evaluator where it     *)
(* returns or raises here.                                                 *)
(***************************************************************************)
\* MonteCarloTreeSearch.Config
MonteCarloTreeSearchConfig(number_of_simulations, rate, temperature, max_time_sec) ==
    [number_of_simulations |-> number_of_simulations,
     exploration_rate |-> rate, temperature |-> temperature,
     max_time_sec |-> max_time_sec]

\* evaluator.supports_rules(rules) of the three classes
supports_rules(evaluator, other_rules) == evaluator.rules = other_rules

\* evaluator.evaluate(state)
evaluator_evaluate(evaluator, state) ==
    IF evaluator.class = "HashPolicy" THEN hash_policy_evaluate(evaluator, state)
    ELSE min_max_evaluate(evaluator, state).out

\* MonteCarloTreeSearch.__init__
MonteCarloTreeSearch(search_rules, evaluator, config) ==
    IF ~supports_rules(evaluator, search_rules) THEN Raise("ValueError")
    ELSE Ok([class |-> "MonteCarloTreeSearch", rules |-> search_rules,
             evaluator |-> evaluator, config |-> config, nodes |-> [k \in {} |-> <<>>]])

\* _Node.__init__
mcts_Node(state) == [state |-> state, expanded_info |-> None]

\* self.nodes[state]: _StateToNodeDefaultDict.__missing__ stores the _Node
\* of a missing state; the search it leaves.
with_node(self, state) ==
    IF state_key(state) \in DOMAIN self.nodes THEN self
    ELSE [self EXCEPT !.nodes = (state_key(state) :> mcts_Node(state)) @@ @]

\* _MoveInfo(move_index, next_node, evaluator_policy)
mcts_MoveInfo(move_index, next_node, evaluator_policy) ==
    [move_index |-> move_index, next_node |-> next_node,
     evaluator_policy |-> evaluator_policy, reward |-> <<0, 1>>,
     exploration_count |-> 0]

\* _MoveInfo.update
move_info_update(move_info, new_reward) ==
    [move_info EXCEPT
        !.reward = float_div(float_add(float_mul(move_info.reward,
                                                 <<move_info.exploration_count, 1>>),
                                       new_reward),
                             <<move_info.exploration_count + 1, 1>>).value,
        !.exploration_count = @ + 1]

\* The nodes that the generator of _Node.expand leaves: self.nodes[...] of
\* the next state of every move up to position last.
RECURSIVE with_next_nodes(_, _, _, _)
with_next_nodes(self, state, moves, last) ==
    IF last = 0 THEN self
    ELSE with_node(with_next_nodes(self, state, moves, last - 1),
                   play_move(self.rules, state, moves[last]).value)

\* _Node.expand of the node of state.  engine.playable_moves raises before
\* it yields or not at all, so it is consumed first; the _MoveInfo are then
\* made move by move up to the first play_move that raises.
mcts_expand(self, state) ==
    IF is_game_over(state) THEN Left(self, Ok(None))
    ELSE
    the({IF evaluation_result.raised # "none" THEN Left(self, evaluation_result)
         ELSE the({
             IF moves.raised # "none" THEN Left(self, moves)
             ELSE the({
                 LET failed == {i \in DOMAIN next_states :
                                   next_states[i].raised # "none"}
                     first == IF failed = {} THEN Len(moves.value) + 1
                              ELSE CHOOSE i \in failed : \A j \in failed : i <= j
                 IN  the({
                     IF failed # {} THEN Left(grown, next_states[first])
                     ELSE Left([grown EXCEPT !.nodes[state_key(state)].expanded_info =
                                   Some([total_exploration_count |-> 0,
                                         result_prediction |->
                                             evaluation_result.value.win_rate,
                                         moves |-> [i \in DOMAIN moves.value |->
                                             mcts_MoveInfo(moves.value[i].move_index,
                                                 state_key(next_states[i].value),
                                                 evaluation_result.value.move_policy[
                                                     moves.value[i].move_index + 1])]])],
                               Ok(None)) :
                     grown \in {with_next_nodes(self, state, moves.value, first - 1)}}) :
                 next_states \in {[i \in DOMAIN moves.value |->
                                      play_move(self.rules, state, moves.value[i])]}}) :
             moves \in {playable_moves(self.rules, state)}}) :
         evaluation_result \in {evaluator_evaluate(self.evaluator, state)}})

\* util.pick_one_with_highest_value(items, key), given the keys of the
\* items: the positions it may return (math.isclose is taken as equality).
pick_one_with_highest_value(keys) ==
    IF DOMAIN keys = {} THEN {Raise("ValueError")}
    ELSE {Ok(i) : i \in {j \in DOMAIN keys :
                            \A m \in DOMAIN keys : float_le(keys[m], keys[j])}}

\* math.sqrt(n) where it is an int; None elsewhere.
int_sqrt(n) ==
    IF \E r \in 0 .. n : r * r = n THEN Some(CHOOSE r \in 0 .. n : r * r = n)
    ELSE None

\* _Node.uct, where it is a fraction; None where the square root is not.
mcts_uct(self, node, move_info) ==
    LET info == node.expanded_info[1]
        weight == float_mul(self.config.exploration_rate, move_info.evaluator_policy)
    IN  IF info.total_exploration_count = 0 THEN Some(weight)
        ELSE IF int_sqrt(info.total_exploration_count) = None THEN None
        ELSE Some(float_add(move_info.reward,
                            float_mul(weight,
                                      <<int_sqrt(info.total_exploration_count)[1],
                                        1 + move_info.exploration_count>>)))

\* _Node.play_move: the positions in expanded_info.moves of the moves it
\* may return.  Where uct is not computed every move may be the highest.
mcts_node_play_move(self, node) ==
    IF node.expanded_info = None THEN {Raise("AssertionError")}
    ELSE LET moves == node.expanded_info[1].moves
             uct == [i \in DOMAIN moves |-> mcts_uct(self, node, moves[i])]
         IN  IF \E i \in DOMAIN uct : uct[i] = None
             THEN {Ok(i) : i \in DOMAIN moves}
             ELSE pick_one_with_highest_value([i \in DOMAIN uct |-> uct[i][1]])

\* _Node.result_prediction
result_prediction(node) ==
    IF is_game_over(node.state)
    THEN result_for_player(node.state.current_player, node.state.result[1])
    ELSE IF node.expanded_info = None THEN Raise("AssertionError")
    ELSE Ok(node.expanded_info[1].result_prediction)

\* _Node.update that counts the edge and not the node.
mcts_update_of_edge(self, key, index, result_for_current_player) ==
    IF self.nodes[key].expanded_info = None THEN Left(self, Raise("AssertionError"))
    ELSE Left([self EXCEPT
                  !.nodes[key].expanded_info[1].moves[index] =
                      move_info_update(@, result_for_current_player)],
              Ok(None))

\* _Node.update of the node with the given key and its move at position
\* index
mcts_update(self, key, index, result_for_current_player) ==
    IF self.nodes[key].expanded_info = None THEN Left(self, Raise("AssertionError"))
    ELSE Left([self EXCEPT
                  !.nodes[key].expanded_info[1].moves[index] =
                      move_info_update(@, result_for_current_player),
                  !.nodes[key].expanded_info[1].total_exploration_count = @ + 1],
              Ok(None))

\* The selection loop of simulation from the node with the given key: the
\* (key reached, node_moves) it may end with, or what play_move raised.
RECURSIVE mcts_select(_, _, _)
mcts_select(self, key, node_moves) ==
    LET node == self.nodes[key]
    IN  IF is_game_over(node.state) \/ node.expanded_info = None
        THEN {Ok([key |-> key, node_moves |-> node_moves])}
        ELSE UNION {IF picked.raised # "none" THEN {picked}
                    ELSE mcts_select(self,
                             node.expanded_info[1].moves[picked.value].next_node,
                             Append(node_moves, <<key, picked.value>>)) :
                    picked \in mcts_node_play_move(self, node)}

\* The backpropagation loop of simulation; result is the prediction for
\* the player given.
RECURSIVE mcts_backpropagate(_, _, _, _)
mcts_backpropagate(self, player, result, node_moves) ==
    IF node_moves = <<>> THEN Left(self, Ok(None))
    ELSE LET key == node_moves[1][1]
         IN  the({IF updated.out.raised # "none" THEN updated
                  ELSE mcts_backpropagate(updated.self, player, result,
                                          Tail(node_moves)) :
                  updated \in {mcts_update(self, key, node_moves[1][2],
                                   IF self.nodes[key].state.current_player = player
                                   THEN result ELSE float_sub(<<1, 1>>, result))}})

\* MonteCarloTreeSearch.simulation
mcts_simulation(self, root_state) ==
    the({{IF selected.raised # "none" THEN Left(rooted, selected)
          ELSE LET key == selected.value.key
               IN  the({
                   IF grown.out.raised # "none" THEN grown
                   ELSE IF other_player(
                               grown.self.nodes[key].state.current_player).raised
                               # "none"
                   THEN Left(grown.self,
                             other_player(grown.self.nodes[key].state.current_player))
                   ELSE the({
                       IF prediction.raised # "none" THEN Left(grown.self, prediction)
                       ELSE mcts_backpropagate(grown.self,
                                grown.self.nodes[key].state.current_player,
                                prediction.value,
                                selected.value.node_moves) :
                       prediction \in {result_prediction(grown.self.nodes[key])}}) :
                   grown \in {mcts_expand(rooted, rooted.nodes[key].state)}}) :
          selected \in mcts_select(rooted, state_key(root_state), <<>>)} :
         rooted \in {with_node(self, root_state)}})

\* k calls of simulation in a row, up to the first that raises.
RECURSIVE mcts_simulations(_, _, _)
mcts_simulations(self, state, k) ==
    IF k = 0 THEN {Left(self, Ok(None))}
    ELSE UNION {IF one.out.raised # "none" THEN {one}
                ELSE mcts_simulations(one.self, state, k - 1) :
                one \in mcts_simulation(self, state)}

\* get_move_policy_dict that gives every move its exploration_count,
\* whatever the temperature.
get_move_policy_dict_of_counts(self, node) ==
    IF node.expanded_info = None THEN Raise("AssertionError")
    ELSE Ok([i \in DOMAIN node.expanded_info[1].moves |->
                <<node.expanded_info[1].moves[i].exploration_count, 1>>])

\* _Node.get_move_policy_dict: the weight of the move at each position of
\* expanded_info.moves.  1 / temperature is taken as an int.
get_move_policy_dict(self, node) ==
    IF node.expanded_info = None THEN Raise("AssertionError")
    ELSE LET moves == node.expanded_info[1].moves
             temperature == self.config.temperature
             max_count == CHOOSE c \in {moves[i].exploration_count : i \in DOMAIN moves} :
                              \A i \in DOMAIN moves : moves[i].exploration_count <= c
         IN  IF moves = <<>> THEN Ok(<<>>)
             ELSE IF temperature = <<0, 1>>
             THEN Ok([i \in DOMAIN moves |->
                         IF moves[i].exploration_count = max_count
                         THEN <<1, 1>> ELSE <<0, 1>>])
             ELSE IF temperature[1] > 0
             THEN Ok([i \in DOMAIN moves |->
                         float_pow(<<moves[i].exploration_count, 1>>,
                                   temperature[2] \div temperature[1])])
             ELSE Raise("ValueError")

\* The lines of play_move after the loop: random.choices raises IndexError
\* on no move and ValueError when no weight is positive.
mcts_choice(self, state) ==
    the({the({
        LET moves == rooted.nodes[state_key(state)].expanded_info[1].moves
        IN  IF policy.raised # "none" THEN {Left(rooted, policy)}
            ELSE IF policy.value = <<>> THEN {Left(rooted, Raise("IndexError"))}
            ELSE IF \A i \in DOMAIN policy.value : policy.value[i][1] = 0
            THEN {Left(rooted, Raise("ValueError"))}
            ELSE {Left(rooted, Ok(PyInt(moves[i].move_index))) :
                     i \in {j \in DOMAIN policy.value : policy.value[j][1] > 0}} :
        policy \in {get_move_policy_dict(rooted, rooted.nodes[state_key(state)])}}) :
        rooted \in {with_node(self, state)}})

\* MonteCarloTreeSearch.play_move when the loop runs k simulations
mcts_play_move(self, state, k) ==
    IF is_game_over(state) THEN {Left(self, Raise("AssertionError"))}
    ELSE UNION {IF ran.out.raised # "none" THEN {ran}
                ELSE mcts_choice(ran.self, state) :
                ran \in mcts_simulations(self, state, k)}

\* evaluator.train(learning_data) with the dict that train_from_game hands
\* over: HashPolicy.train reads training_data.data, which a dict does not
\* have; MinMaxEvaluator.train raises TypeError.
evaluator_train(evaluator, learning_data) ==
    IF evaluator.class = "HashPolicy" THEN Left(evaluator, Raise("AttributeError"))
    ELSE min_max_train(evaluator, learning_data)

\* get_desired_evaluation_result(state) of train_from_game: the search it
\* leaves (self.nodes[state] stores the node of a missing state) and the
\* EvaluationResult, or what was raised.
get_desired_evaluation_result(self, result, state) ==
    the({the({
        IF policy.raised # "none" THEN Left(rooted, policy)
        ELSE the({
            IF win_rate.raised # "none" THEN Left(rooted, win_rate)
            ELSE LET moves == rooted.nodes[state_key(state)].expanded_info[1].moves
                 IN  Left(rooted, Ok(evaluator_EvaluationResult(win_rate.value,
                         [index \in 1 .. number_of_possible_moves(self.rules.board_size) |->
                             IF \E i \in DOMAIN moves : moves[i].move_index = index - 1
                             THEN policy.value[CHOOSE i \in DOMAIN moves :
                                                   moves[i].move_index = index - 1]
                             ELSE <<0, 1>>]))) :
            win_rate \in {result_for_player(state.current_player, result)}}) :
        policy \in {get_move_policy_dict(rooted, rooted.nodes[state_key(state)])}}) :
        rooted \in {with_node(self, state)}})

\* The dict comprehension of train_from_game from position i on, data being
\* the dict so far.
RECURSIVE learning_data_from(_, _, _, _, _)
learning_data_from(self, result, states, i, data) ==
    IF i > Len(states) THEN Left(self, Ok(data))
    ELSE the({IF desired.out.raised # "none" THEN desired
              ELSE learning_data_from(desired.self, result, states, i + 1,
                       (state_key(states[i]) :> desired.out.value) @@ data) :
              desired \in {get_desired_evaluation_result(self, result, states[i])}})

\* MonteCarloTreeSearch.train_from_game
mcts_train_from_game(self, result, states) ==
    the({IF learning_data.out.raised # "none" THEN learning_data
         ELSE the({Left([learning_data.self EXCEPT !.evaluator = trained.self],
                        trained.out) :
                   trained \in {evaluator_train(learning_data.self.evaluator,
                                                learning_data.out.value)}}) :
         learning_data \in {learning_data_from(self, result, states, 1,
                                               [k \in {} |-> <<>>])}})

(***************************************************************************)
(* ai/trainer.py                                                           *)
(***************************************************************************)
TrainerConfig(iterations, simulations) ==
    [iterations |-> iterations, simulations |-> simulations]

\* Trainer.__init__
Trainer(trainer_rules, config) == [rules |-> trainer_rules, config |-> config]

(***************************************************************************)
(* core/game_service.py.  A GameService is the record of its engine (the   *)
(* Rules the engine was created from), state and listeners.  A method      *)
(* gives the service it leaves, its outcome, and the calls it made on the  *)
(* listeners, in their order; each call is written with the state the      *)
(* service held when it was made.  The listeners return from every call.   *)
(***************************************************************************)
\* A call on a listener
Notification(listener, event, args, service_state) ==
    [listener |-> listener, event |-> event, args |-> args, state |-> service_state]

\* What a method of the GameService leaves
Served(self, out, calls) == [self |-> self, out |-> out, calls |-> calls]

\* GameService.new_game
service_new_game(self) ==
    the({Served(started, Ok(None),
                [i \in DOMAIN started.listeners |->
                    Notification(started.listeners[i], "on_new_game",
                                 <<started.state>>, started.state)]) :
         started \in {[self EXCEPT !.state = new_game(self.rules)]}})

\* GameService.__init__
GameService(engine_rules) ==
    service_new_game([class |-> "GameService", rules |-> engine_rules,
                      state |-> None, listeners |-> <<>>]).self

\* GameService.play_move that calls the listeners before it replaces the
\* state.
service_play_move_notifying_first(self, move) ==
    the({IF played.raised # "none" THEN Served(self, played, <<>>)
         ELSE Served([self EXCEPT !.state = played.value], Ok(None),
                     [i \in DOMAIN self.listeners |->
                         Notification(self.listeners[i], "on_move",
                                      <<self.state, move, played.value>>, self.state)]
                     \o (IF is_game_over(played.value)
                         THEN [i \in DOMAIN self.listeners |->
                                  Notification(self.listeners[i], "on_game_over",
                                               <<played.value>>, self.state)]
                         ELSE <<>>)) :
         played \in {play_move(self.rules, self.state, move)}})

\* GameService.play_move
service_play_move(self, move) ==
    the({IF played.raised # "none" THEN Served(self, played, <<>>)
         ELSE the({Served(moved, Ok(None),
                     [i \in DOMAIN moved.listeners |->
                         Notification(moved.listeners[i], "on_move",
                                      <<self.state, move, moved.state>>, moved.state)]
                     \o (IF is_game_over(moved.state)
                         THEN [i \in DOMAIN moved.listeners |->
                                  Notification(moved.listeners[i], "on_game_over",
                                               <<moved.state>>, moved.state)]
                         ELSE <<>>)) :
                   moved \in {[self EXCEPT !.state = played.value]}}) :
         played \in {play_move(self.rules, self.state, move)}})

\* GameService.add_listener
service_add_listener(self, listener) ==
    Served([self EXCEPT !.listeners = Append(@, listener)], Ok(None), <<>>)

\* GameService.remove_listener: list.remove takes the first occurrence out
\* and raises ValueError where there is none.
service_remove_listener(self, listener) ==
    IF \A i \in DOMAIN self.listeners : self.listeners[i] # listener
    THEN Served(self, Raise("ValueError"), <<>>)
    ELSE the({Served([self EXCEPT !.listeners =
                        [i \in 1 .. Len(@) - 1 |-> IF i < first THEN @[i] ELSE @[i + 1]]],
                     Ok(None), <<>>) :
              first \in {CHOOSE i \in DOMAIN self.listeners :
                            /\ self.listeners[i] = listener
                            /\ \A j \in 1 .. i - 1 : self.listeners[j] # listener}})

(***************************************************************************)
(* ui/basegamepanel.py and the panels of the two games.  A panel is the    *)
(* record of its rules, of the players that have an ai_model, of its       *)
(* GameService, of the threads that _execute_off_thread started and have   *)
(* not ended, and of the calls wx.CallAfter has queued for the main        *)
(* thread.  A thread is the state its function was given; a queued call is *)
(* that state with the Move the function returned.  The busy cursor, the   *)
(* drawing and the result dialog leave all of these alone.                 *)
(***************************************************************************)
\* The panel as the service's listener
PanelListener == "self"

\* BaseGamePanel.maybe_play_ai_move: _execute_off_thread starts the thread.
maybe_play_ai_move(self) ==
    the({IF is_game_over(state) THEN self
         ELSE IF self.players[state.current_player]
         THEN [self EXCEPT !.threads = Append(@, [state |-> state])]
         ELSE self :
         state \in {self.game_service.state}})

\* An on_new_game that plays the AI move as on_move does.
panel_on_new_game_playing(self) == maybe_play_ai_move(self)

\* BaseGamePanel.on_new_game
panel_on_new_game(self) == self

\* BaseGamePanel.on_move
panel_on_move(self) == maybe_play_ai_move(self)

\* on_game_over of the panels: show_result
panel_on_game_over(self) == self

\* The panel after the calls the service made on its listeners, from call i
\* on.
RECURSIVE panel_notified(_, _, _)
panel_notified(self, calls, i) ==
    IF i > Len(calls) THEN self
    ELSE IF calls[i].listener # PanelListener THEN panel_notified(self, calls, i + 1)
    ELSE panel_notified(IF calls[i].event = "on_move" THEN panel_on_move(self)
                        ELSE IF calls[i].event = "on_new_game" THEN panel_on_new_game(self)
                        ELSE panel_on_game_over(self),
                        calls, i + 1)

\* A call of a method of the panel's GameService, the listeners' part
\* included.
panel_served(self, served) ==
    Left(panel_notified([self EXCEPT !.game_service = served.self], served.calls, 1),
         served.out)

\* BaseGamePanel.__init__: players[p] is whether game_config.players[p] has
\* an ai_model.
BaseGamePanel(game_config_rules, players) ==
    the({maybe_play_ai_move(
             panel_served(added, service_new_game(added.game_service)).self) :
         added \in {[class |-> "BaseGamePanel",
                     rules |-> game_config_rules,
                     players |-> players,
                     game_service |->
                         service_add_listener(GameService(game_config_rules),
                                              PanelListener).self,
                     threads |-> <<>>,
                     after |-> <<>>]}})

\* play of maybe_play_ai_move, for what ai_model.play_move(state) returned
panel_play(self, move_or_move_index) ==
    IF is_int(move_or_move_index)
    THEN create_move_from_move_index(self.rules, move_or_move_index.int)
    ELSE Ok(move_or_move_index)

\* The sequence without its entry i
Without(seq, i) == [j \in 1 .. Len(seq) - 1 |-> IF j < i THEN seq[j] ELSE seq[j + 1]]

\* off_thread of _execute_off_thread, run by thread i to its end: played is
\* what ai_model.play_move gave (a move, or what it raised).  A function
\* that raises ends the thread before wx.CallAfter.
off_thread(self, i, played) ==
    the({IF t.raised # "none"
         THEN Left([self EXCEPT !.threads = Without(@, i)], t)
         ELSE Left([self EXCEPT !.threads = Without(@, i),
                                !.after = Append(@, [state |-> self.threads[i].state,
                                                     t |-> t.value])],
                   Ok(None)) :
         t \in {IF played.raised # "none" THEN played
                ELSE panel_play(self, played.value)}})

\* main_thread_callback of the first call wx.CallAfter has queued:
\* callback is game_service.play_move.
main_thread_callback(self) ==
    panel_served([self EXCEPT !.after = Tail(@)],
                 service_play_move(self.game_service, Head(self.after).t))

\* get_playable_move_for_board_coordinates of the two panels: the gomoku
\* panel matches the coordinates, the connect-four panel the column.
get_playable_move_for_board_coordinates(self, board_coordinates) ==
    the({IF moves.raised # "none" THEN moves
         ELSE the({IF matching = {} THEN Ok(None)
                   ELSE Ok(Some(moves.value[CHOOSE i \in matching :
                                                \A j \in matching : i <= j])) :
                   matching \in {{i \in DOMAIN moves.value :
                        IF self.rules.kind = "ConnectFour"
                        THEN /\ moves.value[i].coordinates # None
                             /\ moves.value[i].coordinates[2] = board_coordinates[2]
                        ELSE moves.value[i].coordinates = board_coordinates}}}) :
         moves \in {playable_moves(self.rules, self.game_service.state)}})

\* on_click of the two panels
panel_on_click(self, board_coordinates) ==
    IF self.players[self.game_service.state.current_player]
    THEN Left(self, Ok(None))
    ELSE the({IF move.raised # "none" THEN Left(self, move)
              ELSE IF move.value = None THEN Left(self, Ok(None))
              ELSE panel_served(self, service_play_move(self.game_service, move.value[1])) :
              move \in {get_playable_move_for_board_coordinates(self, board_coordinates)}})

\* BaseGamePanel.on_destroy
panel_on_destroy(self) ==
    panel_served(self, service_remove_listener(self.game_service, PanelListener))

(***************************************************************************)
(* The state machine: a session constructs its Rules once, derives the     *)
(* engine, starts games and plays moves.                                   *)
(***************************************************************************)
VARIABLES
    rules,      \* Optional[Rules]: the Rules object of the session
    state,      \* Optional[State]: the current State of the game
    last,       \* the last call: its name, its argument, what it raised
    evaluation, \* Optional: the last EvaluationResult.create call and its outcome
    model,      \* Optional: the evaluator or model object, with its tables, or
                \* the GameService or the game panel of the session
    trainer,    \* Optional: the Trainer object, with the frame of its train
                \* call; its model is the variable model
    returned    \* Optional: the last call on model or trainer and its outcome

\* The variables of the game session and those of the evaluators and models.
game_vars == <<rules, state, last>>
ai_vars == <<evaluation, model, trainer, returned>>
vars == <<rules, state, last, evaluation, model, trainer, returned>>

Call(op, arg, raised) == [op |-> op, arg |-> arg, raised |-> raised]

RulesKinds == {"GenericGomoku", "ConnectFour"}

\* The (rows, columns, goal) a session may ask for, invalid ones included.
RulesInputs ==
    {in \in (1 .. MaxRows) \X (1 .. MaxColumns) \X (1 .. Max(MaxRows, MaxColumns) + 1) :
        in[1] * in[2] <= MaxCells}

\* The int arguments of play_move: every move index and one index beyond
\* each end of the range.
IndexInputs(r) == {PyInt(i) : i \in -1 .. number_of_possible_moves(r.board_size)}

\* The Move arguments of play_move: the engine's own Move of the first cell
\* and of the resignation, and Moves whose coordinates or resign flag do not
\* belong to their move index.
MoveObjectInputs(r) ==
    LET resign_index == get_move_index_for_resign(r)
        made == {Move(0, FALSE, <<0, 0>>),
                 Move(resign_index, TRUE, None),
                 Move(1, FALSE, <<0, 0>>),
                 Move(0, TRUE, None),
                 Move(resign_index, FALSE, <<0, 0>>)}
    IN  {m.value : m \in {x \in made : x.raised = "none"}}

MoveInputs(r) == IndexInputs(r) \cup MoveObjectInputs(r)

\* The arguments of play_move over all the board sizes.
MoveUniverse ==
    UNION {MoveInputs([board_size |-> <<in[1], in[2]>>]) : in \in RulesInputs}

\* No evaluator or model has been constructed or called.
NoAi == evaluation = None /\ model = None /\ trainer = None /\ returned = None

Init ==
    /\ rules = None
    /\ state = None
    /\ last = Call("none", None, "none")
    /\ NoAi

\* rules = GenericGomokuRules(board_size, goal) / ConnectFourRules(...)
CreateRules(kind, rows, columns, goal) ==
    /\ rules = None
    /\ LET made == Rules(kind, <<rows, columns>>, goal)
       IN  /\ rules' = IF made.raised = "none" THEN Some(made.value) ELSE None
           /\ last' = Call("Rules", <<kind, rows, columns, goal>>, made.raised)
    /\ UNCHANGED state
    /\ UNCHANGED ai_vars

\* state = rules.create_engine().new_game()
NewGame ==
    /\ rules # None
    /\ state' = Some(new_game(rules[1]))
    /\ last' = Call("new_game", None, "none")
    /\ UNCHANGED rules
    /\ UNCHANGED ai_vars

\* state = engine.play_move(state, move); a raising call assigns nothing.
PlayMove(move) ==
    /\ state # None
    /\ IF is_int(move)
       THEN move.int <= number_of_possible_moves(rules[1].board_size)
       ELSE move \in MoveObjectInputs(rules[1])
    /\ LET played == play_move(rules[1], state[1], move)
       IN  /\ state' = IF played.raised = "none" THEN Some(played.value) ELSE state
           /\ last' = Call("play_move", move, played.raised)
    /\ UNCHANGED rules
    /\ UNCHANGED ai_vars

Next ==
    \/ \E kind \in RulesKinds, in \in RulesInputs :
           CreateRules(kind, in[1], in[2], in[3])
    \/ NewGame
    \/ \E move \in MoveUniverse : PlayMove(move)

Spec == Init /\ [][Next]_vars

(***************************************************************************)
(* EvaluationResult.create on its own: every call is independent of the    *)
(* calls before it.                                                        *)
(***************************************************************************)
MaxPolicyLength == 3

\* The scores of a move_policy argument, a negative one included.
Scores == {<<-1, 1>>, <<0, 1>>, <<1, 1>>, <<2, 1>>}

\* A win rate and a number that is none.
WinRates == {<<1, 2>>, <<3, 2>>}

\* None, temperature 0, and temperatures t > 0 with an int 1 / t.
Temperatures == {None, Some(<<0, 1>>), Some(<<1, 1>>), Some(<<1, 2>>)}

Tuples(items, length) == [1 .. length -> items]

\* The bitmaps passed with a move_policy of the given length: none, one of
\* the same length, a longer one.
Bitmaps(length) ==
    {None, Some([i \in 1 .. length + 1 |-> TRUE])}
        \cup {Some(b) : b \in Tuples(BOOLEAN, length)}

\* The arguments of one call, the call not yet made.
InitCreate ==
    /\ rules = None
    /\ state = None
    /\ last = Call("none", None, "none")
    /\ model = None
    /\ trainer = None
    /\ returned = None
    /\ \E length \in 0 .. MaxPolicyLength :
       \E w \in WinRates, p \in Tuples(Scores, length), b \in Bitmaps(length),
          t \in Temperatures, n \in BOOLEAN :
           evaluation = Some([in |-> [win_rate |-> w, move_policy |-> p,
                                      playable_moves_bitmap |-> b,
                                      temperature |-> t, normalize |-> n],
                              out |-> None])

\* evaluation_result = EvaluationResult.create(win_rate, move_policy,
\*     playable_moves_bitmap, temperature, normalize)
Create ==
    /\ evaluation # None
    /\ evaluation[1].out = None
    /\ LET in == evaluation[1].in
       IN  evaluation' = Some([in |-> in,
                               out |-> Some(create(in.win_rate, in.move_policy,
                                                   in.playable_moves_bitmap,
                                                   in.temperature, in.normalize))])
    /\ UNCHANGED <<game_vars, model, trainer, returned>>

NextCreate == Create

SpecCreate == InitCreate /\ [][NextCreate]_vars

(***************************************************************************)
(* A HashPolicy and the game it is asked about: the game is played by its  *)
(* engine, the HashPolicy evaluates the current state and proposes moves.  *)
(***************************************************************************)
MaxHashCells == 4

\* The Rules a HashPolicy is constructed for.
HashRules ==
    {Rules(kind, <<in[1], in[2]>>, in[3]).value :
        kind \in RulesKinds,
        in \in {x \in RulesInputs :
                  /\ x[1] * x[2] <= MaxHashCells
                  /\ Rules("GenericGomoku", <<x[1], x[2]>>, x[3]).raised = "none"}}

\* HashPolicyConfigs with the default valid_move_min_value.
HashPolicyConfigs ==
    {HashPolicyConfig(<<1, 2>>, exploration_rate, valid_move_min_value, temperature) :
        exploration_rate \in {<<0, 1>>, <<1, 2>>, <<1, 1>>},
        temperature \in {<<0, 1>>, <<1, 1>>}}

\* The tables a HashPolicy is constructed with: the empty one and tables
\* that hold a value for the state after a first move on the first cell of
\* the last row.
HashTables(r) ==
    LET first == PyInt((r.board_size[1] - 1) * r.board_size[2])
    IN  {StateHashPolicy}
            \cup {policy_setitem(StateHashPolicy,
                                 play_move(r, new_game(r), first).value, v) :
                     v \in {<<0, 1>>, <<1, 1>>}}

InitHash ==
    /\ \E r \in HashRules, config \in HashPolicyConfigs :
       \E policy \in HashTables(r) :
           /\ rules = Some(r)
           /\ model = Some(HashPolicy(r, policy, config))
    /\ state = None
    /\ last = Call("none", None, "none")
    /\ evaluation = None
    /\ trainer = None
    /\ returned = None

\* A game of the session goes on while the model has not been asked: the
\* HashPolicy keeps nothing from one call to the next.
HashNewGame ==
    /\ returned = None
    /\ NewGame

\* A playable move of the game, resignation included.
HashGameMove(i) ==
    /\ returned = None
    /\ state # None
    /\ is_move_playable(rules[1], state[1], PyInt(i)) = Ok(TRUE)
    /\ PlayMove(PyInt(i))

\* evaluation_result = model.evaluate(state)
Evaluate ==
    /\ model # None
    /\ model[1].class = "HashPolicy"
    /\ state # None
    /\ returned' = Some([op |-> "evaluate", arg |-> state[1],
                         out |-> hash_policy_evaluate(model[1], state[1])])
    /\ UNCHANGED <<game_vars, evaluation, model, trainer>>

\* move = model.play_move(state)
ModelPlayMove ==
    /\ model # None
    /\ model[1].class = "HashPolicy"
    /\ state # None
    /\ \E explores \in play_move_explores(model[1]) :
       \E out \in hash_policy_play_move_when(model[1], state[1], explores) :
           returned' = Some([op |-> "play_move", arg |-> state[1],
                             explores |-> explores, out |-> out])
    /\ UNCHANGED <<game_vars, evaluation, model, trainer>>

\* score = model.evaluate_move(state, move_index), move_index in
\* range(number_of_possible_moves) as in HashPolicy.evaluate.
EvaluateMove(move_index) ==
    /\ model # None
    /\ model[1].class = "HashPolicy"
    /\ state # None
    /\ returned = None
    /\ move_index < number_of_possible_moves(model[1].rules.board_size)
    /\ returned' = Some([op |-> "evaluate_move", arg |-> state[1],
                         move_index |-> move_index,
                         out |-> evaluate_move(model[1], state[1], move_index)])
    /\ UNCHANGED <<game_vars, evaluation, model, trainer>>

\* The states handed to create_training_data_for_game: none, the current
\* state, the states from the new game to the current state (its first and
\* its last), the current state twice.
TrainingStates == 0 .. 3

training_states(r, current, pattern) ==
    IF pattern = 0 THEN <<>>
    ELSE IF pattern = 1 THEN <<current>>
    ELSE IF pattern = 2 THEN <<new_game(r), current>>
    ELSE <<current, current>>

\* model.train(model.create_training_data_for_game(result, states)); the
\* result is the one of the game where it is over.
HashTrain(winner, pattern) ==
    /\ model # None
    /\ model[1].class = "HashPolicy"
    /\ state # None
    /\ returned = None
    /\ is_game_over(state[1]) => winner = state[1].result[1].winner
    /\ LET result == IF is_game_over(state[1]) THEN state[1].result[1]
                     ELSE Result(winner, FALSE, None)
           states == training_states(rules[1], state[1], pattern)
       IN  \E training_data \in {create_training_data_for_game(model[1], result, states)} :
           \E left \in {IF training_data.raised # "none"
                        THEN Left(model[1], training_data)
                        ELSE hash_policy_train(model[1], training_data.value)} :
               /\ model' = Some(left.self)
               /\ returned' = Some([op |-> "train",
                                    arg |-> [result |-> result, states |-> states],
                                    before |-> model[1].policy,
                                    out |-> left.out])
    /\ UNCHANGED <<game_vars, evaluation, trainer>>

NextHash ==
    \/ HashNewGame
    \/ \E i \in 0 .. MaxHashCells : HashGameMove(i)
    \/ Evaluate
    \/ ModelPlayMove
    \/ \E move_index \in 0 .. MaxHashCells : EvaluateMove(move_index)
    \/ \E winner \in {NO_PLAYER, FIRST_PLAYER, SECOND_PLAYER}, pattern \in TrainingStates :
           HashTrain(winner, pattern)

SpecHash == InitHash /\ [][NextHash]_vars

(***************************************************************************)
(* A second session: a MinMaxEvaluator is constructed for the Rules and    *)
(* _score_state is called on the state of a game.                          *)
(***************************************************************************)
\* _score_state is followed call by call on the boards of at most this many
\* cells.
MaxScoredCells == 4

\* GenericGomokuRules.create_tic_tac_toe_rules
create_tic_tac_toe_rules == Rules("GenericGomoku", <<3, 3>>, 3)

\* The Rules a MinMaxEvaluator is constructed for: tic-tac-toe and the
\* boards _score_state is followed on.
MinMaxRules ==
    {create_tic_tac_toe_rules.value}
        \cup {Rules(kind, <<in[1], in[2]>>, in[3]).value :
                 kind \in RulesKinds,
                 in \in {x \in RulesInputs :
                           /\ x[1] * x[2] <= MaxScoredCells
                           /\ Rules("GenericGomoku", <<x[1], x[2]>>, x[3]).raised = "none"}}

FollowedCallByCall(r) == r.board_size[1] * r.board_size[2] <= MaxScoredCells

InitMinMax ==
    /\ \E r \in MinMaxRules :
           /\ rules = Some(r)
           /\ state = Some(new_game(r))
           /\ model = Some(MinMaxEvaluator(r))
    /\ last = Call("none", None, "none")
    /\ evaluation = None
    /\ trainer = None
    /\ returned = None

\* A playable move of the game, resignation included, before the evaluator
\* is asked.
MinMaxGameMove(i) ==
    /\ FollowedCallByCall(rules[1])
    /\ HashGameMove(i)

\* self._score_state(state) on the evaluator, whose memo is still empty; on
\* the tic-tac-toe board the state is new_game().
ScoreState ==
    /\ model # None
    /\ model[1].class = "MinMaxEvaluator"
    /\ state # None
    /\ returned = None
    /\ FollowedCallByCall(model[1].rules) \/ state[1] = new_game(model[1].rules)
    /\ \E left \in {IF FollowedCallByCall(model[1].rules)
                     THEN score_state(model[1], state[1])
                     ELSE score_new_game(model[1])} :
           /\ model' = Some(left.self)
           /\ returned' = Some([op |-> "_score_state", arg |-> state[1],
                                before |-> model[1].score, out |-> left.out])
    /\ UNCHANGED <<game_vars, evaluation, trainer>>

\* A second self._score_state(...) on the same evaluator, with the memo the
\* first call left: on the state of the game or on new_game().
ScoreStateAgain(from_new_game) ==
    /\ model # None
    /\ model[1].class = "MinMaxEvaluator"
    /\ FollowedCallByCall(model[1].rules)
    /\ state # None
    /\ returned # None
    /\ returned[1].op = "_score_state"
    /\ DOMAIN returned[1].before = {}
    /\ \E scored \in {IF from_new_game THEN new_game(model[1].rules) ELSE state[1]} :
       \E left \in {score_state(model[1], scored)} :
           /\ model' = Some(left.self)
           /\ returned' = Some([op |-> "_score_state", arg |-> scored,
                                before |-> model[1].score, out |-> left.out])
    /\ UNCHANGED <<game_vars, evaluation, trainer>>

NextMinMax ==
    \/ \E i \in 0 .. MaxScoredCells : MinMaxGameMove(i)
    \/ ScoreState
    \/ \E from_new_game \in BOOLEAN : ScoreStateAgain(from_new_game)

SpecMinMax == InitMinMax /\ [][NextMinMax]_vars

(***************************************************************************)
(* A third session: for the Rules of the session a MinMaxEvaluator, a      *)
(* PureMonteCarloTreeSearch or a MonteCarloTreeSearch is constructed, a    *)
(* Trainer may be constructed around it, a game is played to some state    *)
(* and the object is asked about that state.                               *)
(***************************************************************************)
\* The largest number_of_simulations of a config.
MaxSimulations == 2

\* The exploration_rate default of both Config classes, 1.4.
exploration_rate == <<7, 5>>

PureConfigs ==
    {PureConfig(n, exploration_rate, max_time_sec) :
        n \in 1 .. MaxSimulations, max_time_sec \in {None, Some(<<1, 1>>)}}

MonteCarloTreeSearchConfigs ==
    {MonteCarloTreeSearchConfig(n, exploration_rate, temperature, max_time_sec) :
        n \in 1 .. MaxSimulations, temperature \in {<<0, 1>>, <<1, 1>>},
        max_time_sec \in {None, Some(<<1, 1>>)}}

\* The evaluators handed to MonteCarloTreeSearch, constructed for any of
\* the Rules.
Evaluators ==
    {MinMaxEvaluator(r) : r \in HashRules}
        \cup {HashPolicy(r, StateHashPolicy,
                         HashPolicyConfig(<<0, 1>>, <<0, 1>>, valid_move_min_value,
                                          <<0, 1>>)) : r \in HashRules}

\* The result and states arguments of train: a game that was resigned at
\* once, and nothing.
TrainArguments(r) ==
    {<<None, <<>> >>,
     <<play_move(r, new_game(r), PyInt(get_move_index_for_resign(r))).value.result,
       <<new_game(r)>> >>}

InitSearch ==
    /\ \E r \in HashRules : rules = Some(r)
    /\ state = None
    /\ last = Call("none", None, "none")
    /\ NoAi

\* MinMaxEvaluator(rules)
ConstructMinMax ==
    /\ model = None
    /\ returned = None
    /\ model' = Some(MinMaxEvaluator(rules[1]))
    /\ UNCHANGED <<game_vars, evaluation, trainer, returned>>

\* PureMonteCarloTreeSearch(rules, config)
ConstructPure(config) ==
    /\ model = None
    /\ returned = None
    /\ model' = Some(PureMonteCarloTreeSearch(rules[1], config))
    /\ UNCHANGED <<game_vars, evaluation, trainer, returned>>

\* MonteCarloTreeSearch(rules, evaluator, config)
ConstructSearch(evaluator, config) ==
    /\ model = None
    /\ returned = None
    /\ LET made == MonteCarloTreeSearch(rules[1], evaluator, config)
       IN  IF made.raised = "none"
           THEN model' = Some(made.value) /\ returned' = returned
           ELSE model' = model
                /\ returned' = Some([op |-> "MonteCarloTreeSearch", arg |-> evaluator,
                                     out |-> made])
    /\ UNCHANGED <<game_vars, evaluation, trainer>>

\* Trainer(rules, model, config) around the object of the session, for any
\* of the Rules
ConstructTrainer(trainer_rules) ==
    /\ model # None
    /\ trainer = None
    /\ returned = None
    /\ trainer' = Some(Trainer(trainer_rules, TrainerConfig(1, 1)))
    /\ UNCHANGED <<game_vars, evaluation, model, returned>>

\* min_max_evaluator.train(learning_data)
MinMaxTrain ==
    /\ model # None
    /\ model[1].class = "MinMaxEvaluator"
    /\ \E arguments \in TrainArguments(model[1].rules) :
       \E left \in {min_max_train(model[1], arguments)} :
           /\ model' = Some(left.self)
           /\ returned' = Some([op |-> "train", arg |-> arguments, out |-> left.out])
    /\ UNCHANGED <<game_vars, evaluation, trainer>>

\* pure_mcts.train(result, states)
PureTrain ==
    /\ model # None
    /\ model[1].class = "PureMonteCarloTreeSearch"
    /\ \E arguments \in TrainArguments(model[1].rules) :
       \E left \in {pure_train(model[1], arguments[1], arguments[2])} :
           /\ model' = Some(left.self)
           /\ returned' = Some([op |-> "train", arg |-> arguments, out |-> left.out])
    /\ UNCHANGED <<game_vars, evaluation, trainer>>

\* pure_mcts.evaluate(state), the loop running k simulations
PureEvaluate(k) ==
    /\ model # None
    /\ model[1].class = "PureMonteCarloTreeSearch"
    /\ state # None
    /\ k \in simulations_run(model[1].config)
    /\ \E left \in pure_evaluate(model[1], state[1], k) :
           /\ model' = Some(left.self)
           /\ returned' = Some([op |-> "evaluate", arg |-> state[1], k |-> k,
                                out |-> left.out])
    /\ UNCHANGED <<game_vars, evaluation, trainer>>

\* mcts.play_move(state), the loop running k simulations
SearchPlayMove(k) ==
    /\ model # None
    /\ model[1].class = "MonteCarloTreeSearch"
    /\ state # None
    /\ k \in simulations_run(model[1].config)
    /\ \E left \in mcts_play_move(model[1], state[1], k) :
           /\ model' = Some(left.self)
           /\ returned' = Some([op |-> "play_move", arg |-> state[1], k |-> k,
                                out |-> left.out])
    /\ UNCHANGED <<game_vars, evaluation, trainer>>

\* pure_mcts.simulation(state)
PureSimulation ==
    /\ model # None
    /\ model[1].class = "PureMonteCarloTreeSearch"
    /\ state # None
    /\ \E left \in pure_simulation(model[1], state[1]) :
           /\ model' = Some(left.self)
           /\ returned' = Some([op |-> "simulation", arg |-> state[1],
                                before |-> model[1], out |-> left.out])
    /\ UNCHANGED <<game_vars, evaluation, trainer>>

\* mcts.simulation(root_state)
SearchSimulation ==
    /\ model # None
    /\ model[1].class = "MonteCarloTreeSearch"
    /\ state # None
    /\ \E left \in mcts_simulation(model[1], state[1]) :
           /\ model' = Some(left.self)
           /\ returned' = Some([op |-> "simulation", arg |-> state[1],
                                before |-> model[1], out |-> left.out])
    /\ UNCHANGED <<game_vars, evaluation, trainer>>

NextSearch ==
    \/ PureSimulation
    \/ SearchSimulation
    \/ ConstructMinMax
    \/ \E config \in PureConfigs : ConstructPure(config)
    \/ \E evaluator \in Evaluators, config \in MonteCarloTreeSearchConfigs :
           ConstructSearch(evaluator, config)
    \/ \E trainer_rules \in HashRules : ConstructTrainer(trainer_rules)
    \/ HashNewGame
    \/ \E i \in 0 .. MaxHashCells : HashGameMove(i)
    \/ ScoreState
    \/ MinMaxTrain
    \/ PureTrain
    \/ \E k \in 0 .. MaxSimulations : PureEvaluate(k)
    \/ \E k \in 0 .. MaxSimulations : SearchPlayMove(k)

SpecSearch == InitSearch /\ [][NextSearch]_vars

(***************************************************************************)
(* A fourth session: backpropagation alone.  A search holds the node of    *)
(* new_game() with the edges expand makes from the playable moves, and     *)
(* _Node.update is called on an edge with the result of a simulation.      *)
(***************************************************************************)
\* The largest total_exploration_count reached.
MaxExplorations == 3

\* The move indices expand makes edges from, in their order: those of the
\* playable moves (Engine.playable_moves, as its docstring has it).
edge_moves(search_rules, root) ==
    LET playable == {i \in 0 .. number_of_possible_moves(search_rules.board_size) - 1 :
                        is_move_playable(search_rules, root, PyInt(i)).value}
        RECURSIVE sorted(_)
        sorted(indices) ==
            IF indices = {} THEN <<>>
            ELSE LET least == CHOOSE i \in indices : \A j \in indices : i <= j
                 IN  <<least>> \o sorted(indices \ {least})
    IN  sorted(playable)

\* A PureMonteCarloTreeSearch whose node of root has been expanded.
pure_expanded(search_rules, config, root) ==
    LET moves == edge_moves(search_rules, root)
        node == [pure_Node(root).value EXCEPT
                    !.moves = [i \in DOMAIN moves |->
                        pure_MoveInfo(moves[i],
                            play_move(search_rules, root, PyInt(moves[i])).value)]]
    IN  [PureMonteCarloTreeSearch(search_rules, config) EXCEPT
            !.nodes = (state_key(root) :> node) @@ @,
            !.discovered_states =
                {state_key(node.moves[i].next_state) : i \in DOMAIN node.moves}]

\* A MonteCarloTreeSearch whose node of root has been expanded, the
\* evaluator giving win_rate 1/2 and the same policy to every move.
mcts_expanded(search_rules, evaluator, config, root) ==
    LET moves == edge_moves(search_rules, root)
        self == with_node(MonteCarloTreeSearch(search_rules, evaluator, config).value, root)
        next_states == [i \in DOMAIN moves |->
                           play_move(search_rules, root, PyInt(moves[i]))]
        grown == with_next_nodes(self, root, [i \in DOMAIN moves |-> PyInt(moves[i])],
                                 Len(moves))
    IN  [grown EXCEPT !.nodes[state_key(root)].expanded_info =
            Some([total_exploration_count |-> 0,
                  result_prediction |-> <<1, 2>>,
                  moves |-> [i \in DOMAIN moves |->
                      mcts_MoveInfo(moves[i], state_key(next_states[i].value),
                                    <<1, Len(moves)>>)]])]

\* The results a simulation may end with.
SimulationResults == {Result(winner, resignation, None) :
                         winner \in {NO_PLAYER, FIRST_PLAYER, SECOND_PLAYER},
                         resignation \in BOOLEAN}

InitUpdate ==
    /\ \E r \in HashRules :
           /\ rules = Some(r)
           /\ state = Some(new_game(r))
           /\ \/ \E config \in PureConfigs :
                     model = Some(pure_expanded(r, config, new_game(r)))
              \/ \E config \in MonteCarloTreeSearchConfigs :
                     model = Some(mcts_expanded(r, MinMaxEvaluator(r), config, new_game(r)))
    /\ last = Call("none", None, "none")
    /\ evaluation = None
    /\ trainer = None
    /\ returned = None

\* node.update(result, move_info) of pure_montecarlo.py
PureUpdate(index, result) ==
    /\ model[1].class = "PureMonteCarloTreeSearch"
    /\ model[1].nodes[state_key(state[1])].total_exploration_count < MaxExplorations
    /\ index \in DOMAIN model[1].nodes[state_key(state[1])].moves
    /\ \E left \in {pure_update(model[1], state_key(state[1]), index, result)} :
           /\ model' = Some(left.self)
           /\ returned' = Some([op |-> "update", arg |-> <<index, result>>,
                                out |-> left.out])
    /\ UNCHANGED <<game_vars, evaluation, trainer>>

\* node.update(move_info, result_for_current_player) of montecarlo.py
SearchUpdate(index, result_for_current_player) ==
    /\ model[1].class = "MonteCarloTreeSearch"
    /\ model[1].nodes[state_key(state[1])].expanded_info[1].total_exploration_count
           < MaxExplorations
    /\ index \in DOMAIN model[1].nodes[state_key(state[1])].expanded_info[1].moves
    /\ \E left \in {mcts_update(model[1], state_key(state[1]), index,
                                result_for_current_player)} :
           /\ model' = Some(left.self)
           /\ returned' = Some([op |-> "update",
                                arg |-> <<index, result_for_current_player>>,
                                out |-> left.out])
    /\ UNCHANGED <<game_vars, evaluation, trainer>>

\* move_info = node.play_move(exploration_rate) on the node of the state,
\* with the exploration_rate of the config (simulation) or 0 (best_move).
PureNodePlayMove(of_best_move) ==
    /\ model[1].class = "PureMonteCarloTreeSearch"
    /\ \E rate \in {IF of_best_move THEN <<0, 1>> ELSE model[1].config.exploration_rate} :
       \E picked \in pure_node_play_move(model[1].nodes[state_key(state[1])], rate) :
           returned' = Some([op |-> "play_move", arg |-> rate, out |-> picked])
    /\ UNCHANGED <<game_vars, evaluation, model, trainer>>

\* The rollout loop of simulation from the next_state of the move at
\* position index of the node of the state, in the first simulation through
\* the node.
PureRollout(index) ==
    /\ model[1].class = "PureMonteCarloTreeSearch"
    /\ returned = None
    /\ index \in DOMAIN model[1].nodes[state_key(state[1])].moves
    /\ \E from \in {model[1].nodes[state_key(state[1])].moves[index].next_state} :
       \E rolled \in pure_rollout(model[1].rules, from) :
           returned' = Some([op |-> "rollout", arg |-> index, from |-> from,
                             out |-> rolled])
    /\ UNCHANGED <<game_vars, evaluation, model, trainer>>

NextUpdate ==
    \/ \E index \in 1 .. MaxHashCells + 1, result \in SimulationResults :
           PureUpdate(index, result)
    \/ \E index \in 1 .. MaxHashCells + 1,
          result_for_current_player \in {<<0, 1>>, <<1, 2>>, <<1, 1>>} :
           SearchUpdate(index, result_for_current_player)

SpecUpdate == InitUpdate /\ [][NextUpdate]_vars

\* The same session with the selection and the rollout of
\* PureMonteCarloTreeSearch on the node, between the updates.
NextSelect ==
    \/ \E index \in 1 .. MaxHashCells + 1, result \in SimulationResults :
           PureUpdate(index, result)
    \/ \E of_best_move \in BOOLEAN : PureNodePlayMove(of_best_move)
    \/ \E index \in 1 .. MaxHashCells + 1 : PureRollout(index)

SpecSelect == InitUpdate /\ [][NextSelect]_vars

(***************************************************************************)
(* A fifth session: the expanded node of a MonteCarloTreeSearch.  The      *)
(* search holds the node of new_game(), expanded from the evaluation its   *)
(* HashPolicy gives, and the node is updated, asked for the move to        *)
(* explore (play_move) and for its move policy (get_move_policy_dict).     *)
(***************************************************************************)
\* The temperatures of the MonteCarloTreeSearch.Config: 0, 1/2, the
\* default 1, and -1.
PolicyTemperatures == {<<0, 1>>, <<1, 2>>, <<1, 1>>, <<-1, 1>>}

\* The tables of the HashPolicy behind the search: the empty one and one
\* that holds 0 for the state after a first move on the first cell of the
\* last row.
PolicyTables(r) ==
    {StateHashPolicy,
     policy_setitem(StateHashPolicy,
                    play_move(r, new_game(r),
                              PyInt((r.board_size[1] - 1) * r.board_size[2])).value,
                    <<0, 1>>)}

\* A MonteCarloTreeSearch whose node of root has been expanded: the edges
\* of edge_moves, with result_prediction and evaluator_policy taken from
\* evaluator.evaluate(root) as _Node.expand takes them.
mcts_expanded_by(search_rules, evaluator, config, root) ==
    LET moves == edge_moves(search_rules, root)
        evaluation_result == evaluator_evaluate(evaluator, root).value
        self == with_node(MonteCarloTreeSearch(search_rules, evaluator, config).value, root)
        next_states == [i \in DOMAIN moves |->
                           play_move(search_rules, root, PyInt(moves[i]))]
        grown == with_next_nodes(self, root, [i \in DOMAIN moves |-> PyInt(moves[i])],
                                 Len(moves))
    IN  [grown EXCEPT !.nodes[state_key(root)].expanded_info =
            Some([total_exploration_count |-> 0,
                  result_prediction |-> evaluation_result.win_rate,
                  moves |-> [i \in DOMAIN moves |->
                      mcts_MoveInfo(moves[i], state_key(next_states[i].value),
                                    evaluation_result.move_policy[moves[i] + 1])]])]

InitPolicy ==
    /\ \E r \in HashRules, temperature \in PolicyTemperatures :
       \E table \in PolicyTables(r), evaluator_temperature \in {<<0, 1>>, <<1, 1>>} :
           /\ rules = Some(r)
           /\ state = Some(new_game(r))
           /\ model = Some(mcts_expanded_by(r,
                  HashPolicy(r, table,
                             HashPolicyConfig(<<0, 1>>, <<0, 1>>, valid_move_min_value,
                                              evaluator_temperature)),
                  MonteCarloTreeSearchConfig(1, exploration_rate, temperature, None),
                  new_game(r)))
    /\ last = Call("none", None, "none")
    /\ evaluation = None
    /\ trainer = None
    /\ returned = None

\* The session updates the node and then asks it once.
NodeNotAsked == IF returned = None THEN TRUE ELSE returned[1].op = "update"

\* move_info = node.play_move() on the node of the state
SearchNodePlayMove ==
    /\ model[1].class = "MonteCarloTreeSearch"
    /\ NodeNotAsked
    /\ \E picked \in mcts_node_play_move(model[1], model[1].nodes[state_key(state[1])]) :
           returned' = Some([op |-> "play_move", arg |-> None, out |-> picked])
    /\ UNCHANGED <<game_vars, evaluation, model, trainer>>

\* mcts.get_move_policy_dict(state)
SearchMovePolicy ==
    /\ model[1].class = "MonteCarloTreeSearch"
    /\ NodeNotAsked
    /\ \E rooted \in {with_node(model[1], state[1])} :
           /\ model' = Some(rooted)
           /\ returned' = Some([op |-> "get_move_policy_dict", arg |-> state[1],
                  out |-> get_move_policy_dict(rooted, rooted.nodes[state_key(state[1])])])
    /\ UNCHANGED <<game_vars, evaluation, trainer>>

\* The updates of the backpropagation come first, the node is asked after
\* them.
PolicyUpdate(index, result_for_current_player) ==
    /\ NodeNotAsked
    /\ SearchUpdate(index, result_for_current_player)

\* mcts.train_from_game(state.result, states) after a game of one move: the
\* search chose the move and the move ended the game.
SearchTrainFromGame ==
    /\ model[1].class = "MonteCarloTreeSearch"
    /\ returned # None
    /\ returned[1].op = "choice"
    /\ returned[1].out.raised = "none"
    /\ \E next \in {play_move(rules[1], state[1], returned[1].out.value)} :
           /\ next.raised = "none"
           /\ is_game_over(next.value)
           /\ \E left \in {mcts_train_from_game(model[1], next.value.result[1],
                                                <<state[1], next.value>>)} :
                  /\ model' = Some(left.self)
                  /\ returned' = Some([op |-> "train_from_game",
                                       arg |-> <<next.value.result[1],
                                                 <<state[1], next.value>> >>,
                                       before |-> model[1], out |-> left.out])
    /\ UNCHANGED <<game_vars, evaluation, trainer>>

\* The lines of mcts.play_move(state) after the loop of simulations
SearchChoice ==
    /\ model[1].class = "MonteCarloTreeSearch"
    /\ NodeNotAsked
    /\ \E left \in mcts_choice(model[1], state[1]) :
           /\ model' = Some(left.self)
           /\ returned' = Some([op |-> "choice", arg |-> state[1], out |-> left.out])
    /\ UNCHANGED <<game_vars, evaluation, trainer>>

NextPolicy ==
    \/ \E index \in 1 .. MaxHashCells + 1,
          result_for_current_player \in {<<0, 1>>, <<1, 2>>, <<1, 1>>} :
           PolicyUpdate(index, result_for_current_player)
    \/ SearchNodePlayMove
    \/ SearchMovePolicy
    \/ SearchChoice
    \/ SearchTrainFromGame

SpecPolicy == InitPolicy /\ [][NextPolicy]_vars

(***************************************************************************)
(* A sixth session: a game loop.  From new_game() a playable move is       *)
(* played while the state is not over, as `while not state.is_game_over`   *)
(* of Trainer.train and of the rollout do with the moves of their model.   *)
(* The loop goes on while it can: weak fairness of its step.               *)
(***************************************************************************)
\* The Rules of the loop: every valid configuration, of both games.
LoopRules ==
    {Rules(kind, <<in[1], in[2]>>, in[3]).value :
        kind \in RulesKinds,
        in \in {x \in RulesInputs :
                  Rules("GenericGomoku", <<x[1], x[2]>>, x[3]).raised = "none"}}

InitLoop ==
    /\ \E r \in LoopRules :
           /\ rules = Some(r)
           /\ state = Some(new_game(r))
    /\ last = Call("new_game", None, "none")
    /\ NoAi

\* One pass of the loop: state = engine.play_move(state, move) for a move
\* that is playable.
LoopMove(i) ==
    /\ ~is_game_over(state[1])
    /\ is_move_playable(rules[1], state[1], PyInt(i)) = Ok(TRUE)
    /\ PlayMove(PyInt(i))

NextLoop == \E i \in 0 .. MaxCells : LoopMove(i)

SpecLoop == InitLoop /\ [][NextLoop]_vars /\ WF_vars(NextLoop)

(***************************************************************************)
(* A session with a GameService (core/game_service.py): listeners are      *)
(* added and removed, games are started and moves are played through the   *)
(* service.  model holds the GameService, state the state it holds, and    *)
(* returned the last call on it: the service before the call, the outcome  *)
(* and the calls the listeners received.                                   *)
(***************************************************************************)
\* The most entries the list of listeners gets.
MaxListeners == 2

\* The listeners there are to register.
Listeners == 1 .. MaxListeners

InitService ==
    /\ \E r \in HashRules :
           /\ rules = Some(r)
           /\ model = Some(GameService(r))
           /\ state = Some(GameService(r).state)
    /\ last = Call("GameService", None, "none")
    /\ evaluation = None
    /\ trainer = None
    /\ returned = None

\* What a call on the service leaves in the variables.
ServiceCalled(op, arg, served) ==
    /\ model' = Some(served.self)
    /\ state' = Some(served.self.state)
    /\ last' = Call(op, arg, served.out.raised)
    /\ returned' = Some([op |-> op, arg |-> arg, before |-> model[1],
                         out |-> served.out, calls |-> served.calls])
    /\ UNCHANGED <<rules, evaluation, trainer>>

ServiceAddListener(listener) ==
    /\ model # None
    /\ Len(model[1].listeners) < MaxListeners
    /\ ServiceCalled("add_listener", listener, service_add_listener(model[1], listener))

ServiceRemoveListener(listener) ==
    /\ model # None
    /\ ServiceCalled("remove_listener", listener, service_remove_listener(model[1], listener))

ServiceNewGame ==
    /\ model # None
    /\ ServiceCalled("new_game", None, service_new_game(model[1]))

ServicePlayMove(move) ==
    /\ model # None
    /\ IF is_int(move)
       THEN move.int <= number_of_possible_moves(rules[1].board_size)
       ELSE move \in MoveObjectInputs(rules[1])
    /\ ServiceCalled("play_move", move, service_play_move(model[1], move))

NextService ==
    \/ \E listener \in Listeners : ServiceAddListener(listener)
    \/ \E listener \in Listeners : ServiceRemoveListener(listener)
    \/ ServiceNewGame
    \/ \E move \in MoveUniverse : ServicePlayMove(move)

SpecService == InitService /\ [][NextService]_vars

(***************************************************************************)
(* A session with a game panel (ui/basegamepanel.py): the threads of the   *)
(* AI moves end in any order and whenever they do, and the main thread     *)
(* runs the queued callbacks, the clicks on the board and the destruction  *)
(* of the window one at a time.  model holds the panel, state the state of *)
(* its GameService, and returned the last step: the panel before it, what  *)
(* the step was given and its outcome.                                     *)
(***************************************************************************)
\* The most threads of AI moves a step may look at.
MaxThreads == 2

\* Which players of game_config have an ai_model.
PanelPlayers == [{FIRST_PLAYER, SECOND_PLAYER} -> BOOLEAN]

\* What ai_model.play_move(state) gives: a move index, a Move, or an
\* exception.  NameError is the thread that reaches wx.CallAfter before
\* _execute_off_thread has bound main_thread_callback, which it does after
\* it has started the thread.
AiOutcomes(r) ==
    {Ok(move) : move \in MoveInputs(r)} \cup {Raise("ValueError"), Raise("NameError")}

InitPanel ==
    /\ \E r \in LoopRules, players \in PanelPlayers :
           /\ rules = Some(r)
           /\ model = Some(BaseGamePanel(r, players))
           /\ state = Some(BaseGamePanel(r, players).game_service.state)
    /\ last = Call("BaseGamePanel", None, "none")
    /\ evaluation = None
    /\ trainer = None
    /\ returned = None

\* What a step of the panel leaves in the variables.
PanelStepped(op, arg, left) ==
    /\ model' = Some(left.self)
    /\ state' = Some(left.self.game_service.state)
    /\ last' = Call(op, None, left.out.raised)
    /\ returned' = Some([op |-> op, arg |-> arg, before |-> model[1], out |-> left.out])
    /\ UNCHANGED <<rules, evaluation, trainer>>

\* The window of the panel exists.
PanelShown ==
    /\ model # None
    /\ \E i \in DOMAIN model[1].game_service.listeners :
           model[1].game_service.listeners[i] = PanelListener

\* A thread runs off_thread to its end.
PanelThreadEnds(i, played) ==
    /\ model # None
    /\ i \in DOMAIN model[1].threads
    /\ played \in AiOutcomes(rules[1])
    /\ PanelStepped("off_thread", <<model[1].threads[i], played>>,
                    off_thread(model[1], i, played))

\* The main thread runs the first queued callback.
PanelMainThreadCallback ==
    /\ model # None
    /\ model[1].after # <<>>
    /\ PanelStepped("main_thread_callback", Head(model[1].after),
                    main_thread_callback(model[1]))

\* The main thread runs on_click.
PanelClick(board_coordinates) ==
    /\ PanelShown
    /\ board_coordinates \in Cells(rules[1].board_size)
    /\ PanelStepped("on_click", board_coordinates,
                    panel_on_click(model[1], board_coordinates))

\* The main thread runs on_destroy.
PanelDestroy ==
    /\ PanelShown
    /\ PanelStepped("on_destroy", None, panel_on_destroy(model[1]))

NextPanel ==
    \/ \E i \in 1 .. MaxThreads, played \in UNION {AiOutcomes(r) : r \in LoopRules} :
           PanelThreadEnds(i, played)
    \/ PanelMainThreadCallback
    \/ \E board_coordinates \in Cells(<<MaxRows, MaxColumns>>) : PanelClick(board_coordinates)
    \/ PanelDestroy

SpecPanel == InitPanel /\ [][NextPanel]_vars

(***************************************************************************)
(* A session that runs Trainer.train (ai/trainer.py) on a HashPolicy, the  *)
(* TrainableModel of this repository.  trainer holds the Trainer and the   *)
(* frame of its train call: where the call is (pc), its locals, and the    *)
(* calls it has made on the model; state is the local of that name.        *)
(***************************************************************************)
\* The most iterations of a TrainerConfig, and the most games of one of its
\* iterations.
MaxIterations == 2
MaxGames == 2

TrainerConfigs ==
    {TrainerConfig(iterations, simulations) :
        iterations \in 0 .. MaxIterations, simulations \in 0 .. MaxGames}

\* TrainingData.add: self.data += training_data.data
training_data_add(self, training_data) == self \o training_data

\* Where train goes on at the head of its loops: range(iterations) and
\* range(simulations); an iteration without simulations calls nothing.
train_loops(config, iteration) ==
    IF iteration < config.iterations /\ config.simulations > 0 THEN "new_game"
    ELSE "done"

InitTrainer ==
    /\ \E r \in HashRules, config \in HashPolicyConfigs, trainer_config \in TrainerConfigs :
       \E policy \in HashTables(r) :
           /\ rules = Some(r)
           /\ model = Some(HashPolicy(r, policy, config))
           /\ trainer = Some([self |-> Trainer(r, trainer_config),
                              pc |-> train_loops(trainer_config, 0),
                              iteration |-> 0,
                              simulation |-> 0,
                              game_index |-> 0,
                              states |-> <<>>,
                              training_data |-> None,
                              calls |-> <<>>])
    /\ state = None
    /\ last = Call("train", None, "none")
    /\ evaluation = None
    /\ returned = None

\* train raises: the call ends where it is.
TrainerRaised(frame, raised) == [frame EXCEPT !.pc = "raised"]

\* game_index += 1; state = engine.new_game(); states.append(state)
TrainerNewGame ==
    /\ trainer # None
    /\ trainer[1].pc = "new_game"
    /\ state' = Some(new_game(trainer[1].self.rules))
    /\ trainer' = Some([trainer[1] EXCEPT !.pc = "play",
                                          !.game_index = @ + 1,
                                          !.states = <<new_game(trainer[1].self.rules)>>])
    /\ last' = Call("new_game", None, "none")
    /\ UNCHANGED <<rules, evaluation, model, returned>>

\* One pass of `while not state.is_game_over`: move = self.model.play_move(state);
\* state = engine.play_move(state, move); states.append(state)
TrainerPlayMove ==
    /\ trainer # None
    /\ trainer[1].pc = "play"
    /\ ~is_game_over(state[1])
    /\ \E move \in hash_policy_play_move(model[1], state[1]) :
       \E played \in {IF move.raised # "none" THEN move
                      ELSE play_move(trainer[1].self.rules, state[1], move.value)} :
           /\ state' = IF played.raised # "none" THEN state ELSE Some(played.value)
           /\ trainer' = Some(IF played.raised # "none"
                              THEN TrainerRaised(trainer[1], played.raised)
                              ELSE [trainer[1] EXCEPT !.states = Append(@, played.value)])
           /\ last' = Call("play_move", IF move.raised # "none" THEN None ELSE move.value,
                           played.raised)
    /\ UNCHANGED <<rules, evaluation, model, returned>>

\* The lines of train after the game: create_training_data_for_game, the
\* training data of the iteration, and, after the last simulation of the
\* iteration, self.model.train(training_data).
train_after_game(self, frame, result) ==
    the({IF data.raised # "none"
         THEN Left(self, [TrainerRaised(frame, data.raised) EXCEPT !.calls = Append(@, made)])
         ELSE the({
             IF frame.simulation + 1 < frame.self.config.simulations
             THEN Left(self, [frame EXCEPT !.pc = "new_game",
                                           !.simulation = @ + 1,
                                           !.training_data = Some(training_data),
                                           !.calls = Append(@, made)])
             ELSE the({
                 IF trained.out.raised # "none"
                 THEN Left(trained.self,
                           [TrainerRaised(frame, trained.out.raised) EXCEPT
                               !.calls = @ \o <<made, [op |-> "train", arg |-> training_data,
                                                        out |-> trained.out]>>])
                 ELSE Left(trained.self,
                           [frame EXCEPT
                               !.pc = train_loops(frame.self.config, frame.iteration + 1),
                               !.iteration = @ + 1,
                               !.simulation = 0,
                               !.training_data = None,
                               !.calls = @ \o <<made, [op |-> "train", arg |-> training_data,
                                                        out |-> trained.out]>>]) :
                 trained \in {hash_policy_train(self, training_data)}}) :
             training_data \in {IF frame.training_data = None THEN data.value
                                ELSE training_data_add(frame.training_data[1], data.value)}}) :
         data \in {create_training_data_for_game(self, result, frame.states)},
         made \in {[op |-> "create_training_data_for_game",
                    arg |-> <<result, frame.states>>,
                    out |-> create_training_data_for_game(self, result, frame.states)]}})

\* The game of train is over.
TrainerGameOver ==
    /\ trainer # None
    /\ trainer[1].pc = "play"
    /\ is_game_over(state[1])
    /\ \E left \in {train_after_game(model[1], trainer[1], state[1].result[1])} :
           /\ model' = Some(left.self)
           /\ trainer' = Some(left.out)
           /\ last' = Call("create_training_data_for_game", None,
                           IF left.out.pc = "raised" THEN "raised" ELSE "none")
    /\ UNCHANGED <<rules, state, evaluation, returned>>

NextTrainer ==
    \/ TrainerNewGame
    \/ TrainerPlayMove
    \/ TrainerGameOver

SpecTrainer == InitTrainer /\ [][NextTrainer]_vars

(***************************************************************************)
(* Notions the properties are stated with.                                 *)
(***************************************************************************)
R == rules[1]
S == state[1]

\* The last call was a play_move that returned a state.
Played == state # None /\ last.op = "play_move" /\ last.raised = "none"

\* The coordinates of the move of the last play_move (None for a resignation).
LastCoordinates ==
    IF is_int(last.arg) THEN get_coordinates_for_move_index(R, last.arg.int).value
    ELSE last.arg.coordinates

PlayedCell == Played /\ LastCoordinates # None
PlayedResign == Played /\ LastCoordinates = None

\* The state is the object returned by new_game or by a successful play_move.
Returned == state # None /\ last.raised = "none"

\* The cells at i steps from cell in direction d, for i in lo .. hi, are all
\* on the board and owned by player.
OwnedRun(board_size, board, cell, d, lo, hi, player) ==
    \A i \in lo .. hi :
        LET c == coordinates_add(cell, coordinates_mul(d, i))
        IN  contains(board_size, c) /\ board[c] = player

\* A run of goal cells of player along a row, column or diagonal through cell.
RunThrough(board_size, board, cell, player, goal) ==
    \E k \in 1 .. Len(HALF_INTERCARDINAL_DIRECTIONS) :
        \E back \in 0 .. goal - 1 :
            OwnedRun(board_size, board, cell, HALF_INTERCARDINAL_DIRECTIONS[k],
                     0 - back, goal - 1 - back, player)

\* The board holds a run of goal cells of one owner.
HasRun(board_size, board, goal) ==
    \E cell \in DOMAIN board :
        /\ board[cell] # NO_PLAYER
        /\ RunThrough(board_size, board, cell, board[cell], goal)

\* line is a contiguous in-bounds run of at least goal cells of winner that
\* contains cell.
IsWinningLine(line, board_size, board, cell, winner, goal) ==
    /\ Len(line) >= goal
    /\ \E i \in DOMAIN line : line[i] = cell
    /\ \A i \in DOMAIN line : contains(board_size, line[i]) /\ board[line[i]] = winner
    /\ \E k \in 1 .. Len(HALF_INTERCARDINAL_DIRECTIONS) :
           \/ \A i \in 1 .. Len(line) - 1 :
                 line[i + 1] = coordinates_add(line[i], HALF_INTERCARDINAL_DIRECTIONS[k])
           \/ \A i \in 1 .. Len(line) - 1 :
                 line[i + 1] = coordinates_sub(line[i], HALF_INTERCARDINAL_DIRECTIONS[k])

(***************************************************************************)
(* C1.  Whenever play_move places a piece that completes a run of at least *)
(* goal cells of the mover through the played cell, the returned state is  *)
(* terminal, its winner is the player who just moved, it is no             *)
(* resignation, and winning_coordinates is a contiguous in-bounds run of   *)
(* at least goal cells of the winner that contains the played cell.        *)
(***************************************************************************)
C1_WinningMoveEndsGame ==
    (/\ PlayedCell
     /\ RunThrough(R.board_size, S.board, LastCoordinates,
                   S.board[LastCoordinates], R.goal))
    => /\ is_game_over(S)
       /\ S.result[1].winner = S.board[LastCoordinates]
       /\ other_player(S.result[1].winner) = Ok(S.current_player)
       /\ ~S.result[1].resignation
       /\ IsWinningLine(S.result[1].winning_coordinates, R.board_size, S.board,
                        LastCoordinates, S.result[1].winner, R.goal)

(***************************************************************************)
(* C2.  For every reachable board and its last played coordinate, the full *)
(* scan create_from_board and the incremental create_from_board_and_last_  *)
(* move return the same outcome: both None, both a draw, or both the same  *)
(* winner with winning lines that cover the same cells.                    *)
(***************************************************************************)
SameOutcome(a, b) ==
    /\ a.raised = "none"
    /\ b.raised = "none"
    /\ (a.value = None) = (b.value = None)
    /\ a.value # None =>
          /\ a.value[1].winner = b.value[1].winner
          /\ a.value[1].resignation = b.value[1].resignation
          /\ {a.value[1].winning_coordinates[i] :
                  i \in DOMAIN a.value[1].winning_coordinates}
             = {b.value[1].winning_coordinates[i] :
                  i \in DOMAIN b.value[1].winning_coordinates}

C2_ScanEqualsLastMoveCheck ==
    PlayedCell =>
        SameOutcome(create_from_board(R, S.board),
                    create_from_board_and_last_move(R, S.board, LastCoordinates))

(***************************************************************************)
(* C3.  For every state reached by non-resign moves: the state is          *)
(* non-terminal exactly when the board has an empty cell and holds no run  *)
(* of goal same-owner cells; and a move that fills the last empty cell     *)
(* without making a run returns a draw (winner NO_PLAYER, no resignation,  *)
(* no winning coordinates).                                                *)
(***************************************************************************)
C3_TerminalIffFullOrRun ==
    (state # None /\ (is_game_over(S) => ~S.result[1].resignation))
    => /\ (~is_game_over(S))
            = (any_empty(S.board) /\ ~HasRun(R.board_size, S.board, R.goal))
       /\ (PlayedCell /\ ~any_empty(S.board)
               /\ ~HasRun(R.board_size, S.board, R.goal))
            => S.result = Some(Result(NO_PLAYER, FALSE, None))

(***************************************************************************)
(* C4.  In every non-terminal state, play_move with the resign move (as    *)
(* index or as Move) returns a terminal state whose winner is the other    *)
(* player (the negation of the player to move), flagged as resignation,    *)
(* without winning coordinates, and with a cell-for-cell equal board.      *)
(* (Every State is first seen as the value a call returned, so the states  *)
(* after a returning call are all the states.)                             *)
(***************************************************************************)
C4_ResignEndsGame ==
    (Returned /\ ~is_game_over(S)) =>
        \A move \in {PyInt(R.board_size[1] * R.board_size[2]),
                      [move_index |-> R.board_size[1] * R.board_size[2],
                       resign |-> TRUE, coordinates |-> None]} :
            LET out == play_move(R, S, move)
            IN  /\ out.raised = "none"
                /\ is_game_over(out.value)
                /\ out.value.result[1].winner = 0 - S.current_player
                /\ out.value.result[1].resignation
                /\ out.value.result[1].winning_coordinates = None
                /\ DOMAIN out.value.board = DOMAIN S.board
                /\ \A c \in DOMAIN S.board : out.value.board[c] = S.board[c]

\* A resignation was played on a board that holds pieces.
C4_Witness ==
    /\ PlayedResign
    /\ is_game_over(S)
    /\ S.result[1].resignation
    /\ \E c \in DOMAIN S.board : S.board[c] # NO_PLAYER

(***************************************************************************)
(* C5.  play_move raises ValueError and leaves the state as it was         *)
(* whenever the move is not playable: the target cell is owned, or (in     *)
(* connect-four) is not the lowest empty cell of its column, or the state  *)
(* is terminal (any move, resign included); and on a terminal state        *)
(* is_move_playable returns False for every move.                          *)
(***************************************************************************)
\* The move index a play_move argument names.
IndexOf(move) == IF is_int(move) THEN move.int ELSE move.move_index

NotPlayable(r, s, move) ==
    \/ is_game_over(s)
    \/ /\ 0 <= IndexOf(move)
       /\ IndexOf(move) < r.board_size[1] * r.board_size[2]
       /\ LET row == IndexOf(move) \div r.board_size[2]
              column == IndexOf(move) % r.board_size[2]
          IN  \/ s.board[<<row, column>>] # NO_PLAYER
              \/ /\ r.kind = "ConnectFour"
                 /\ \E below \in row + 1 .. r.board_size[1] - 1 :
                        s.board[<<below, column>>] = NO_PLAYER

C6_MoveIndexBijection ==
    rules # None =>
        /\ \A c \in Cells(R.board_size) :
              LET index == get_move_index_for_coordinates(R, c)
              IN  /\ index = Ok(c[1] * R.board_size[2] + c[2])
                  /\ get_coordinates_for_move_index(R, index.value) = Ok(c)
        /\ \A i \in 0 .. R.board_size[1] * R.board_size[2] - 1 :
              LET c == get_coordinates_for_move_index(R, i)
              IN  /\ c.raised = "none"
                  /\ c.value # None
                  /\ get_move_index_for_coordinates(R, c.value) = Ok(i)
        /\ get_coordinates_for_move_index(R, R.board_size[1] * R.board_size[2])
              = Ok(None)

(***************************************************************************)
(* C7.  Invalid move descriptions are rejected: an index below 0 or above  *)
(* the resign index raises ValueError; get_move_index_for_coordinates      *)
(* raises ValueError exactly when the coordinates lie outside the board;   *)
(* a Move with (resign and coordinates) or (no resign and no coordinates)  *)
(* cannot be constructed; validate_move and is_move_playable raise         *)
(* ValueError for a Move whose fields do not match its index.              *)
(***************************************************************************)
\* Every Move that can be constructed over the indices and coordinates near
\* the board.
NearCoordinates(r) == (-1 .. r.board_size[1]) \X (-1 .. r.board_size[2])

ConstructibleMoves(r) ==
    {m.value : m \in {x \in {Move(t[1], t[2], t[3]) :
                                t \in (0 .. r.board_size[1] * r.board_size[2])
                                       \X BOOLEAN
                                       \X ({None} \cup Cells(r.board_size))} :
                         x.raised = "none"}}

Mismatched(r, m) ==
    \/ m.resign # (m.move_index = r.board_size[1] * r.board_size[2])
    \/ m.coordinates #
          (IF m.move_index = r.board_size[1] * r.board_size[2] THEN None
           ELSE <<m.move_index \div r.board_size[2],
                  m.move_index % r.board_size[2]>>)

C7_InvalidMovesRejected ==
    rules # None =>
        /\ \A i \in {-2, -1, R.board_size[1] * R.board_size[2] + 1,
                      R.board_size[1] * R.board_size[2] + 2} :
              /\ create_move_from_move_index(R, i).raised = "ValueError"
              /\ get_coordinates_for_move_index(R, i).raised = "ValueError"
        /\ \A c \in NearCoordinates(R) :
              /\ get_move_index_for_coordinates(R, c).raised \in {"none", "ValueError"}
              /\ (get_move_index_for_coordinates(R, c).raised = "ValueError")
                    = ~contains(R.board_size, c)
        /\ \A i \in 0 .. R.board_size[1] * R.board_size[2] :
              /\ Move(i, FALSE, None).raised # "none"
              /\ \A c \in Cells(R.board_size) : Move(i, TRUE, c).raised # "none"
        /\ \A m \in ConstructibleMoves(R) :
              Mismatched(R, m) =>
                  /\ validate_move(R, m).raised = "ValueError"
                  /\ state # None => is_move_playable(R, S, m).raised = "ValueError"

(***************************************************************************)
(* C8.  Constructing Rules succeeds exactly when rows >= 2, columns >= 2   *)
(* and 2 <= goal <= max(rows, columns); every other combination raises    *)
(* ValueError and produces no Rules object.                                *)
(***************************************************************************)
ValidConfiguration(rows, columns, goal) ==
    /\ rows >= 2
    /\ columns >= 2
    /\ 2 <= goal
    /\ goal <= rows \/ goal <= columns

C8_RulesValidated ==
    /\ rules # None =>
          ValidConfiguration(R.board_size[1], R.board_size[2], R.goal)
    /\ last.op = "Rules" =>
          /\ (last.raised = "none")
                = ValidConfiguration(last.arg[2], last.arg[3], last.arg[4])
          /\ last.raised \in {"none", "ValueError"}
          /\ last.raised = "ValueError" => rules = None
          /\ last.raised = "none" =>
                rules = Some([kind |-> last.arg[1],
                              board_size |-> <<last.arg[2], last.arg[3]>>,
                              goal |-> last.arg[4]])

\* A construction with a board of at least 2x2 and a goal above both
\* dimensions raised.
C8_Witness ==
    /\ last.op = "Rules"
    /\ last.raised = "ValueError"
    /\ rules = None
    /\ last.arg[2] >= 2
    /\ last.arg[3] >= 2
    /\ last.arg[4] > last.arg[2]
    /\ last.arg[4] > last.arg[3]

(***************************************************************************)
(* C9.  State equality and hash depend only on (current_player, result,    *)
(* flattened board): a state compares equal and hashes equal to a state    *)
(* built apart from it with the same components, and to the state reached  *)
(* from new_game() by playing the same pieces in another order when both   *)
(* have the same player to move and no result; it compares equal to no     *)
(* state that differs in a component.                                      *)
(***************************************************************************)
\* The cells of the board in row-major order, last cell first.
CellsLastFirst(board_size) ==
    [i \in 1 .. board_size[1] * board_size[2] |->
        <<(board_size[1] * board_size[2] - i) \div board_size[2],
          (board_size[1] * board_size[2] - i) % board_size[2]>>]

OwnedLastFirst(board_size, board, player) ==
    SelectSeq(CellsLastFirst(board_size), LAMBDA c : board[c] = player)

\* Play the cells of mine and theirs in turn, mine first, from the outcome st.
RECURSIVE Replay(_, _, _, _)
Replay(r, st, mine, theirs) ==
    IF st.raised # "none" \/ mine = <<>> THEN st
    ELSE Replay(r,
                play_move(r, st.value,
                          PyInt(Head(mine)[1] * r.board_size[2] + Head(mine)[2])),
                theirs, Tail(mine))

\* The state reached from new_game() by playing the pieces of the board in
\* the order last cell first, the players taking turns.
Replayed(r, board) ==
    Replay(r, Ok(new_game(r)),
           OwnedLastFirst(r.board_size, board, FIRST_PLAYER),
           OwnedLastFirst(r.board_size, board, SECOND_PLAYER))

\* A state built apart from s out of its three components.
Rebuilt(r, s) ==
    State(s.current_player, s.result,
          [c \in Cells(r.board_size) |->
              flatten(s.board)[c[1] * r.board_size[2] + c[2] + 1]])

SameComponents(s1, s2) ==
    /\ s1.current_player = s2.current_player
    /\ s1.result = s2.result
    /\ DOMAIN s1.board = DOMAIN s2.board
    /\ \A c \in DOMAIN s1.board : s1.board[c] = s2.board[c]

EqualAndHashEqual(s1, s2) ==
    state_eq(s1, s2) /\ state_eq(s2, s1) /\ state_hash(s1) = state_hash(s2)

C9_StateIdentity ==
    Returned =>
        LET replayed == Replayed(R, S.board)
        IN  /\ EqualAndHashEqual(S, Rebuilt(R, S))
            /\ (S.result = None /\ replayed.raised = "none"
                   /\ replayed.value.result = None)
                  => EqualAndHashEqual(S, replayed.value)
            /\ \A other \in {new_game(R)}
                             \cup (IF replayed.raised = "none"
                                   THEN {replayed.value} ELSE {}) :
                  state_eq(S, other) = SameComponents(S, other)

\* A game of at least three pieces whose last piece is not the last piece of
\* the replayed order, and whose state equals the replayed state.
C9_Witness ==
    /\ PlayedCell
    /\ S.result = None
    /\ Cardinality({c \in DOMAIN S.board : S.board[c] # NO_PLAYER}) >= 3
    /\ Replayed(R, S.board).raised = "none"
    /\ LET pieces == OwnedLastFirst(R.board_size, S.board, S.board[LastCoordinates])
       IN  pieces[Len(pieces)] # LastCoordinates
    /\ state_eq(S, Replayed(R, S.board).value)

(***************************************************************************)
(* C10.  In every reachable state the three legality views agree: the      *)
(* move indices yielded by playable_moves, the indices for which           *)
(* is_move_playable is true and the True positions of                      *)
(* playable_moves_bitmap are the same set; the bitmap has                  *)
(* number_of_possible_moves() entries; on a terminal state all three are   *)
(* empty, and on a non-terminal state playable_moves yields a move.        *)
(***************************************************************************)
C10_LegalityViewsAgree ==
    state # None =>
        LET moves == playable_moves(R, S)
            bitmap == playable_moves_bitmap(R, S)
            indices == 0 .. R.board_size[1] * R.board_size[2]
            playable == {i \in indices : is_move_playable(R, S, PyInt(i)) = Ok(TRUE)}
        IN  /\ moves.raised = "none"
            /\ bitmap.raised = "none"
            /\ {moves.value[k].move_index : k \in DOMAIN moves.value} = playable
            /\ Len(bitmap.value) = R.board_size[1] * R.board_size[2] + 1
            /\ {i \in indices : bitmap.value[i + 1]} = playable
            /\ is_game_over(S) => playable = {}
            /\ ~is_game_over(S) => Len(moves.value) >= 1

(***************************************************************************)
(* C11.  new_game() has current_player FIRST_PLAYER, an all-empty board    *)
(* and no result; every play_move that returns (a board move, a drawing    *)
(* move, a resignation) returns a state whose current_player is the other  *)
(* player of the input state's current_player, so the cell just played     *)
(* belongs to the player who is not current_player, also in a terminal     *)
(* state.                                                                  *)
(***************************************************************************)
C11_MoverAlternates ==
    /\ [](/\ (state # None /\ last.op = "new_game") =>
                /\ S.current_player = FIRST_PLAYER
                /\ \A c \in Cells(R.board_size) : S.board[c] = NO_PLAYER
                /\ DOMAIN S.board = Cells(R.board_size)
                /\ S.result = None
          /\ PlayedCell =>
                /\ S.current_player \in {FIRST_PLAYER, SECOND_PLAYER}
                /\ S.board[LastCoordinates] = 0 - S.current_player)
    /\ [][(state # None /\ last'.op = "play_move" /\ last'.raised = "none")
            => /\ S.current_player \in {FIRST_PLAYER, SECOND_PLAYER}
               /\ state'[1].current_player = 0 - S.current_player]_vars

\* A terminal state reached by a move on the board (the drawing move).
C11_Witness ==
    /\ PlayedCell
    /\ is_game_over(S)
    /\ S.board[LastCoordinates] = 0 - S.current_player

\* A terminal state reached by a resignation of the second player.
C11_WitnessResign ==
    /\ PlayedResign
    /\ is_game_over(S)
    /\ S.current_player = FIRST_PLAYER

(***************************************************************************)
(* C12.  EvaluationResult.create called with normalize=True and a          *)
(* legality bitmap, on a non-negative score vector that is positive at     *)
(* some legal index (a win rate in [0, 1], no temperature or a             *)
(* temperature >= 0), returns a move_policy whose entries are all          *)
(* non-negative, are 0 at every index outside the bitmap, and sum to 1.    *)
(***************************************************************************)
\* The arguments C12 is about.
NormalizedWithBitmap(in) ==
    /\ in.normalize
    /\ in.playable_moves_bitmap # None
    /\ Len(in.playable_moves_bitmap[1]) = Len(in.move_policy)
    /\ \A i \in DOMAIN in.move_policy : in.move_policy[i][1] >= 0
    /\ \E i \in DOMAIN in.move_policy :
           in.playable_moves_bitmap[1][i] /\ in.move_policy[i][1] > 0
    /\ in.win_rate[1] >= 0
    /\ in.win_rate[1] <= in.win_rate[2]

C12_NormalizedOverLegalMoves ==
    (/\ evaluation # None
     /\ evaluation[1].out # None
     /\ NormalizedWithBitmap(evaluation[1].in)) =>
        LET in == evaluation[1].in
            out == evaluation[1].out[1]
        IN  /\ out.raised = "none"
            /\ Len(out.value.move_policy) = Len(in.move_policy)
            /\ \A i \in DOMAIN in.move_policy :
                   /\ out.value.move_policy[i][1] >= 0
                   /\ out.value.move_policy[i][2] > 0
                   /\ ~in.playable_moves_bitmap[1][i]
                          => out.value.move_policy[i][1] = 0
            /\ float_sum(out.value.move_policy) = <<1, 1>>

\* A call with an illegal index of positive score and a temperature.
C12_Witness ==
    /\ evaluation # None
    /\ evaluation[1].out # None
    /\ NormalizedWithBitmap(evaluation[1].in)
    /\ evaluation[1].in.temperature = Some(<<1, 2>>)
    /\ \E i \in DOMAIN evaluation[1].in.move_policy :
           /\ ~evaluation[1].in.playable_moves_bitmap[1][i]
           /\ evaluation[1].in.move_policy[i][1] > 0
    /\ Cardinality({i \in DOMAIN evaluation[1].in.move_policy :
                        evaluation[1].out[1].value.move_policy[i][1] > 0}) >= 2

(***************************************************************************)
(* C13.  When normalization is requested and every score remaining after   *)
(* masking is 0, the resulting policy is uniform over the indices allowed  *)
(* by the mask: each legal index gets 1 / #legal, each illegal index 0,    *)
(* and the call does not raise.                                            *)
(***************************************************************************)
\* Index i of the call's move_policy is allowed by its mask.
Legal(in, i) ==
    in.playable_moves_bitmap = None \/ in.playable_moves_bitmap[1][i]

\* The arguments C13 is about.
AllZeroAfterMasking(in) ==
    /\ in.normalize
    /\ in.playable_moves_bitmap # None
           => Len(in.playable_moves_bitmap[1]) = Len(in.move_policy)
    /\ \E i \in DOMAIN in.move_policy : Legal(in, i)
    /\ \A i \in DOMAIN in.move_policy : Legal(in, i) => in.move_policy[i][1] = 0
    /\ in.win_rate[1] >= 0
    /\ in.win_rate[1] <= in.win_rate[2]

C13_AllZeroIsUniform ==
    (/\ evaluation # None
     /\ evaluation[1].out # None
     /\ AllZeroAfterMasking(evaluation[1].in)) =>
        LET in == evaluation[1].in
            out == evaluation[1].out[1]
            legal == {i \in DOMAIN in.move_policy : Legal(in, i)}
        IN  /\ out.raised = "none"
            /\ \A i \in DOMAIN in.move_policy :
                   out.value.move_policy[i] =
                       IF i \in legal THEN <<1, Cardinality(legal)>> ELSE <<0, 1>>

(***************************************************************************)
(* C14.  For every terminal State and every HashPolicyConfig,              *)
(* HashPolicy.evaluate(state) returns an EvaluationResult whose win_rate   *)
(* is exactly 1, 0 or 0.5 according to whether state.current_player won,   *)
(* lost or drew.                                                           *)
(***************************************************************************)
C14_TerminalExactness ==
    (/\ returned # None
     /\ returned[1].op = "evaluate"
     /\ is_game_over(returned[1].arg)) =>
        LET s == returned[1].arg
            out == returned[1].out
        IN  /\ out.raised = "none"
            /\ out.value.win_rate =
                   IF s.result[1].winner = NO_PLAYER THEN <<1, 2>>
                   ELSE IF s.result[1].winner = s.current_player THEN <<1, 1>>
                   ELSE <<0, 1>>

(***************************************************************************)
(* C15.  HashPolicy.play_move on a non-terminal state always returns a     *)
(* move that is playable in that state and is not the resign move, in the  *)
(* exploration branch and in the evaluation branch and for every table     *)
(* content; on a terminal state it raises ValueError.                      *)
(***************************************************************************)
C15_ModelMoveIsPlayable ==
    (/\ returned # None
     /\ returned[1].op = "play_move"
     /\ model[1].class = "HashPolicy") =>
        LET s == returned[1].arg
            out == returned[1].out
        IN  IF is_game_over(s) THEN out.raised = "ValueError"
            ELSE /\ out.raised = "none"
                 /\ IndexOf(out.value) # get_move_index_for_resign(model[1].rules)
                 /\ is_move_playable(model[1].rules, s, out.value) = Ok(TRUE)

(***************************************************************************)
(* C16.  On the 3x3 board with goal 3, _score_state of a fresh             *)
(* MinMaxEvaluator gives exactly 0.5 for new_game().  (On the boards where *)
(* the recursion is followed call by call, the entries it leaves in        *)
(* self.score for new_game() are those of scores_with_pieces, the table    *)
(* the 3x3 score is read from.)                                            *)
(***************************************************************************)
ScoredNewGame ==
    /\ returned # None
    /\ returned[1].op = "_score_state"
    /\ returned[1].arg = new_game(model[1].rules)

C17_TrainRaises ==
    [][(returned' # None /\ returned'[1].op = "train") =>
           /\ returned'[1].out.raised = "TypeError"
           /\ model' = model]_vars

C17_Witness ==
    /\ returned # None
    /\ returned[1].op = "train"
    /\ returned[1].arg[1] # None
    /\ model[1].class = "MinMaxEvaluator"
    /\ DOMAIN model[1].score # {}

C17_WitnessPure ==
    /\ returned # None
    /\ returned[1].op = "train"
    /\ model[1].class = "PureMonteCarloTreeSearch"
    /\ DOMAIN model[1].nodes # {}

(***************************************************************************)
(* C18.  No MonteCarloTreeSearch and no Trainer is ever bound to Rules     *)
(* that its evaluator or model does not support: constructing one with     *)
(* such Rules fails.                                                       *)
(***************************************************************************)
C18_MismatchFailsAtConstruction ==
    /\ (model # None /\ model[1].class = "MonteCarloTreeSearch") =>
           supports_rules(model[1].evaluator, model[1].rules)
    /\ trainer # None => supports_rules(model[1], trainer[1].rules)

\* The half of C18 about MonteCarloTreeSearch alone.
SearchEvaluatorSupportsRules ==
    (model # None /\ model[1].class = "MonteCarloTreeSearch") =>
        supports_rules(model[1].evaluator, model[1].rules)

(***************************************************************************)
(* C19.  When the clock stops the loop after k simulations, for any        *)
(* 0 <= k < number_of_simulations, PureMonteCarloTreeSearch.evaluate and   *)
(* MonteCarloTreeSearch.play_move on a state that is not over do not       *)
(* raise: they return a result.                                            *)
(***************************************************************************)
StoppedByBudget ==
    /\ returned # None
    /\ returned[1].op \in {"evaluate", "play_move"}
    /\ model[1].class \in {"PureMonteCarloTreeSearch", "MonteCarloTreeSearch"}
    /\ ~is_game_over(returned[1].arg)
    /\ returned[1].k < model[1].config.number_of_simulations

C19_BudgetNeverAborts == StoppedByBudget => returned[1].out.raised = "none"

\* The case k = 0 alone, on an object that was never asked before about
\* the state: no simulation ran, so nothing of C19's failure comes from a
\* simulation.
BudgetBeforeFirstSimulationReturns ==
    (StoppedByBudget /\ returned[1].k = 0) => returned[1].out.raised = "none"

\* No call of evaluate / play_move on a state that is not over returns.
SearchNeverReturns ==
    (/\ returned # None
     /\ returned[1].op \in {"evaluate", "play_move"}
     /\ ~is_game_over(returned[1].arg)) => returned[1].out.raised # "none"

(***************************************************************************)
(* C20.  In both MCTS variants no step of a search decreases the           *)
(* total_exploration_count of a node or the exploration_count of an edge,  *)
(* and no node and no edge is removed: every node stays, with every edge   *)
(* it had, on the same move, counted at least as often as before.          *)
(***************************************************************************)
\* The edges and the count of the node with the given key.
Edges(search, key) ==
    IF search.class = "PureMonteCarloTreeSearch" THEN search.nodes[key].moves
    ELSE IF search.nodes[key].expanded_info = None THEN <<>>
    ELSE search.nodes[key].expanded_info[1].moves

TotalExplorationCount(search, key) ==
    IF search.class = "PureMonteCarloTreeSearch"
    THEN search.nodes[key].total_exploration_count
    ELSE IF search.nodes[key].expanded_info = None THEN 0
    ELSE search.nodes[key].expanded_info[1].total_exploration_count

IsSearch(m) ==
    /\ m # None
    /\ m[1].class \in {"PureMonteCarloTreeSearch", "MonteCarloTreeSearch"}

CountsKept(before, after) ==
    \A key \in DOMAIN before.nodes :
        /\ key \in DOMAIN after.nodes
        /\ TotalExplorationCount(after, key) >= TotalExplorationCount(before, key)
        /\ Len(Edges(after, key)) >= Len(Edges(before, key))
        /\ \A i \in DOMAIN Edges(before, key) :
               /\ Edges(after, key)[i].move_index = Edges(before, key)[i].move_index
               /\ Edges(after, key)[i].exploration_count
                      >= Edges(before, key)[i].exploration_count

MaskedAtTemperatureZero(in) ==
    /\ in.playable_moves_bitmap # None
    /\ Len(in.playable_moves_bitmap[1]) = Len(in.move_policy)
    /\ \E i \in DOMAIN in.move_policy : in.playable_moves_bitmap[1][i]
    /\ in.temperature = Some(<<0, 1>>)
    /\ ~in.normalize
    /\ \A i \in DOMAIN in.move_policy : in.move_policy[i][1] >= 0
    /\ in.win_rate[1] >= 0
    /\ in.win_rate[1] <= in.win_rate[2]

\* The policy C21 states for the arguments.
MaximalLegal(in, i) ==
    /\ in.playable_moves_bitmap[1][i]
    /\ \A j \in DOMAIN in.move_policy :
           in.playable_moves_bitmap[1][j]
               => float_le(in.move_policy[j], in.move_policy[i])

C21_MaskBeforeTemperatureZero ==
    (/\ evaluation # None
     /\ evaluation[1].out # None
     /\ MaskedAtTemperatureZero(evaluation[1].in)) =>
        LET in == evaluation[1].in
            out == evaluation[1].out[1]
        IN  /\ out.raised = "none"
            /\ \A i \in DOMAIN in.move_policy :
                   out.value.move_policy[i] =
                       IF MaximalLegal(in, i) THEN <<1, 1>> ELSE <<0, 1>>

\* The same where a legal index has a positive score.
MaskBeforeTemperatureZeroOnPositiveScore ==
    (/\ evaluation # None
     /\ evaluation[1].out # None
     /\ MaskedAtTemperatureZero(evaluation[1].in)
     /\ \E i \in DOMAIN evaluation[1].in.move_policy :
            /\ evaluation[1].in.playable_moves_bitmap[1][i]
            /\ evaluation[1].in.move_policy[i][1] > 0) =>
        LET in == evaluation[1].in
            out == evaluation[1].out[1]
        IN  /\ out.raised = "none"
            /\ \A i \in DOMAIN in.move_policy :
                   out.value.move_policy[i] =
                       IF MaximalLegal(in, i) THEN <<1, 1>> ELSE <<0, 1>>

(***************************************************************************)
(* C22.  HashPolicy.train(create_training_data_for_game(result, states))   *)
(* returns and leaves the table of the reference: in the order of states   *)
(* and once per occurrence, each state s that is not over gets             *)
(* value + learning_rate * (result_for_player(s.current_player, result)    *)
(* - value), from 0.5 where s is not in the table; the states that are     *)
(* over and the states not in the sequence get no entry and keep their     *)
(* value.                                                                  *)
(***************************************************************************)
\* The table the claim states, from position i of states on.
RECURSIVE TrainedTable(_, _, _, _, _)
TrainedTable(policy, result, states, learning_rate, i) ==
    IF i > Len(states) THEN policy
    ELSE IF is_game_over(states[i])
    THEN TrainedTable(policy, result, states, learning_rate, i + 1)
    ELSE LET key == state_key(states[i])
             value == IF key \in DOMAIN policy THEN policy[key] ELSE <<1, 2>>
             desired == IF result.winner = NO_PLAYER THEN <<1, 2>>
                        ELSE IF result.winner = states[i].current_player THEN <<1, 1>>
                        ELSE <<0, 1>>
             trained == float_add(value,
                            float_mul(learning_rate, float_sub(desired, value)))
         IN  TrainedTable([k \in DOMAIN policy \cup {key} |->
                              IF k = key THEN trained ELSE policy[k]],
                          result, states, learning_rate, i + 1)

C22_TrainMovesTowardsResult ==
    (returned # None /\ returned[1].op = "train") =>
        /\ returned[1].out.raised = "none"
        /\ model[1].policy =
               TrainedTable(returned[1].before, returned[1].arg.result,
                            returned[1].arg.states, model[1].config.learning_rate, 1)

\* The same for the calls whose states are all over.
TrainOnStatesThatAreOver ==
    (/\ returned # None
     /\ returned[1].op = "train"
     /\ \A i \in DOMAIN returned[1].arg.states :
            is_game_over(returned[1].arg.states[i])) =>
        /\ returned[1].out.raised = "none"
        /\ model[1].policy = returned[1].before

\* A state that is not over among the states: the call raises ValueError
\* and writes nothing.
TrainRaisesOnStateNotOver ==
    (/\ returned # None
     /\ returned[1].op = "train"
     /\ \E i \in DOMAIN returned[1].arg.states :
            ~is_game_over(returned[1].arg.states[i])) =>
        /\ returned[1].out.raised = "ValueError"
        /\ model[1].policy = returned[1].before

(***************************************************************************)
(* C23.  Where HashPolicy.play_move does not take the exploration branch,  *)
(* the move it returns on a state that is not over is, for every           *)
(* HashPolicyConfig, a playable move other than resignation whose one-ply  *)
(* score (the stored value of the state it leads to, 1 - value where the   *)
(* player to move changed) is the highest among those moves.               *)
(***************************************************************************)
\* The playable move indices of s other than resignation.
LookaheadMoves(self, s) ==
    {i \in 0 .. number_of_possible_moves(self.rules.board_size) - 1 :
        /\ i # get_move_index_for_resign(self.rules)
        /\ is_move_playable(self.rules, s, PyInt(i)) = Ok(TRUE)}

\* The one-ply score of move i of s.
LookaheadScore(self, s, i) ==
    LET next == play_move(self.rules, s, PyInt(i)).value
        v == policy_getitem(self.policy, next).value
    IN  IF next.current_player = s.current_player THEN v
        ELSE float_sub(<<1, 1>>, v)

\* The same, not below valid_move_min_value.
ClampedLookaheadScore(self, s, i) ==
    float_max(LookaheadScore(self, s, i), self.config.valid_move_min_value)

PlayedWithoutExploring ==
    /\ returned # None
    /\ returned[1].op = "play_move"
    /\ ~returned[1].explores
    /\ ~is_game_over(returned[1].arg)

C23_PlaysAnArgMaxMove ==
    PlayedWithoutExploring =>
        LET s == returned[1].arg
            out == returned[1].out
        IN  /\ out.raised = "none"
            /\ IndexOf(out.value) \in LookaheadMoves(model[1], s)
            /\ \A i \in LookaheadMoves(model[1], s) :
                   float_le(LookaheadScore(model[1], s, i),
                            LookaheadScore(model[1], s, IndexOf(out.value)))

\* The same for the configs of temperature 0, the scores not below
\* valid_move_min_value.
C23_PlaysAnArgMaxMoveAtTemperatureZero ==
    (PlayedWithoutExploring /\ model[1].config.temperature = <<0, 1>>) =>
        LET s == returned[1].arg
            out == returned[1].out
        IN  /\ out.raised = "none"
            /\ IndexOf(out.value) \in LookaheadMoves(model[1], s)
            /\ \A i \in LookaheadMoves(model[1], s) :
                   float_le(ClampedLookaheadScore(model[1], s, i),
                            ClampedLookaheadScore(model[1], s, IndexOf(out.value)))

\* At temperature 0 a move was returned while another playable move has a
\* lower score.
C23_Witness ==
    /\ PlayedWithoutExploring
    /\ model[1].config.temperature = <<0, 1>>
    /\ returned[1].out.raised = "none"
    /\ \E i \in LookaheadMoves(model[1], returned[1].arg) :
           float_lt(ClampedLookaheadScore(model[1], returned[1].arg, i),
                    ClampedLookaheadScore(model[1], returned[1].arg,
                                          IndexOf(returned[1].out.value)))

(***************************************************************************)
(* C24.  HashPolicy.evaluate_move on a state that is not over gives every  *)
(* playable move of the board a score >= valid_move_min_value > 0, also    *)
(* where the value stored for the state it leads to makes the score 0      *)
(* before the clamp, and gives every unplayable move index and the resign  *)
(* index exactly 0: the score is positive exactly for the playable moves   *)
(* other than resignation.                                                 *)
(***************************************************************************)
MoveEvaluated ==
    /\ returned # None
    /\ returned[1].op = "evaluate_move"
    /\ ~is_game_over(returned[1].arg)

C24_PositiveExactlyOnPlayableMoves ==
    MoveEvaluated =>
        LET s == returned[1].arg
            i == returned[1].move_index
            out == returned[1].out
            playable == /\ i # get_move_index_for_resign(model[1].rules)
                        /\ is_move_playable(model[1].rules, s, PyInt(i)) = Ok(TRUE)
        IN  /\ out.raised = "none"
            /\ model[1].config.valid_move_min_value[1] > 0
            /\ IF playable
               THEN float_le(model[1].config.valid_move_min_value, out.value)
               ELSE out.value = <<0, 1>>
            /\ out.value[1] > 0 <=> playable

\* A playable move whose score before the clamp is 0 has been scored.
C24_Witness ==
    /\ MoveEvaluated
    /\ returned[1].move_index \in LookaheadMoves(model[1], returned[1].arg)
    /\ LookaheadScore(model[1], returned[1].arg, returned[1].move_index) = <<0, 1>>
    /\ returned[1].out = Ok(model[1].config.valid_move_min_value)

\* An unplayable cell and the resign index have been scored.
UnplayableMovesScored ==
    /\ MoveEvaluated
    /\ returned[1].move_index \notin LookaheadMoves(model[1], returned[1].arg)
    /\ returned[1].move_index # get_move_index_for_resign(model[1].rules)

(***************************************************************************)
(* C25.  On the boards where _score_state is followed call by call, for    *)
(* every state a game reaches, MinMaxEvaluator._score_state(state) returns *)
(* the negamax value: result_for_player(current_player, result) where the  *)
(* state is over, else the maximum over the playable moves of the score of *)
(* the next state, 1 - score where the player to move changed.  Every      *)
(* entry of self.score is that value for its state, an entry once written  *)
(* keeps its value, and a second call gives what the first gave.           *)
(***************************************************************************)
\* The greatest of a non-empty set of floats.
GreatestOf(values) == CHOOSE v \in values : \A w \in values : float_le(w, v)

\* The playable move indices of s, resignation included.
PlayableIndices(r, s) ==
    {i \in 0 .. number_of_possible_moves(r.board_size) - 1 :
        is_move_playable(r, s, PyInt(i)) = Ok(TRUE)}

RECURSIVE Negamax(_, _)
Negamax(r, s) ==
    IF is_game_over(s)
    THEN IF s.result[1].winner = NO_PLAYER THEN <<1, 2>>
         ELSE IF s.result[1].winner = s.current_player THEN <<1, 1>>
         ELSE <<0, 1>>
    ELSE GreatestOf({LET next == play_move(r, s, PyInt(i)).value
                         v == Negamax(r, next)
                     IN  IF next.current_player = s.current_player THEN v
                         ELSE float_sub(<<1, 1>>, v) :
                     i \in PlayableIndices(r, s)})

\* The entry of key is the negamax step over the entries of its next states.
EntryIsNegamaxStep(self, key) ==
    LET s == state_of_key(self.rules, key)
    IN  IF is_game_over(s) THEN self.score[key] = Negamax(self.rules, s)
        ELSE /\ \A i \in PlayableIndices(self.rules, s) :
                    state_key(play_move(self.rules, s, PyInt(i)).value) \in DOMAIN self.score
             /\ self.score[key] =
                    GreatestOf({LET next == play_move(self.rules, s, PyInt(i)).value
                                    v == self.score[state_key(next)]
                                IN  IF next.current_player = s.current_player THEN v
                                    ELSE float_sub(<<1, 1>>, v) :
                                i \in PlayableIndices(self.rules, s)})

StateScored ==
    /\ returned # None
    /\ returned[1].op = "_score_state"
    /\ FollowedCallByCall(model[1].rules)

ScoreIsNegamax ==
    StateScored =>
        LET key == state_key(returned[1].arg)
            out == returned[1].out
        IN  /\ out.raised = "none"
            /\ out.value = Negamax(model[1].rules, returned[1].arg)
            /\ key \in DOMAIN model[1].score
            /\ model[1].score[key] = out.value
            /\ \A k \in DOMAIN model[1].score : EntryIsNegamaxStep(model[1], k)
            /\ key \in DOMAIN returned[1].before =>
                   /\ out.value = returned[1].before[key]
                   /\ model[1].score = returned[1].before

\* From one state of the evaluator to the next, every entry of self.score
\* is still there with the value it had.
EntriesKept ==
    (/\ model # None
     /\ model' # None
     /\ model[1].class = "MinMaxEvaluator"
     /\ model'[1].class = "MinMaxEvaluator") =>
        \A k \in DOMAIN model[1].score :
            /\ k \in DOMAIN model'[1].score
            /\ model'[1].score[k] = model[1].score[k]

C25_ScoreStateIsNegamax == []ScoreIsNegamax /\ [][EntriesKept]_vars

\* A state that is not over was scored a second time, and a second call on
\* new_game() added entries to a memo that held some.
C25_Witness ==
    /\ StateScored
    /\ ~is_game_over(returned[1].arg)
    /\ state_key(returned[1].arg) \in DOMAIN returned[1].before
    /\ returned[1].out = Ok(<<1, 2>>)

ScoredAgainWithNewEntries ==
    /\ StateScored
    /\ DOMAIN returned[1].before # {}
    /\ state_key(returned[1].arg) \notin DOMAIN returned[1].before
    /\ DOMAIN returned[1].before # DOMAIN model[1].score

(***************************************************************************)
(* C26.  After one simulation of PureMonteCarloTreeSearch on a state that  *)
(* is not over, the edges of the path selected from that state, one per    *)
(* node, have exploration_count one higher and exploration_wins higher by  *)
(* result_for_player(player of the edge's node, result of the simulation), *)
(* the nodes of the path have total_exploration_count one higher, and no   *)
(* other edge or node has changed.                                         *)
(***************************************************************************)
PureSimulated ==
    /\ returned # None
    /\ returned[1].op = "simulation"
    /\ model[1].class = "PureMonteCarloTreeSearch"
    /\ ~is_game_over(returned[1].arg)

\* The statistics of edge i of the node of key k in nodes; zero where there
\* is no such edge or node.
EdgeCount(nodes, k, i) ==
    IF k \in DOMAIN nodes /\ i \in DOMAIN nodes[k].moves
    THEN nodes[k].moves[i].exploration_count ELSE 0

EdgeWins(nodes, k, i) ==
    IF k \in DOMAIN nodes /\ i \in DOMAIN nodes[k].moves
    THEN nodes[k].moves[i].exploration_wins ELSE <<0, 1>>

NodeCount(nodes, k) ==
    IF k \in DOMAIN nodes THEN nodes[k].total_exploration_count ELSE 0

\* The edges whose exploration_count differs between before and after.
CountedEdges(before, after) ==
    UNION {{<<k, i>> : i \in {j \in DOMAIN after[k].moves :
                                EdgeCount(after, k, j) # EdgeCount(before, k, j)}} :
           k \in DOMAIN after}

C26_OnlyThePathIsUpdated ==
    PureSimulated =>
        LET before == returned[1].before.nodes
            after == model[1].nodes
            path == CountedEdges(before, after)
        IN  /\ returned[1].out.raised = "none"
            /\ \E e \in path : e[1] = state_key(returned[1].arg)
            /\ \A e1, e2 \in path : e1[1] = e2[1] => e1 = e2
            /\ \E winner \in {NO_PLAYER, FIRST_PLAYER, SECOND_PLAYER} :
                   \A e \in path :
                       /\ EdgeCount(after, e[1], e[2]) = EdgeCount(before, e[1], e[2]) + 1
                       /\ EdgeWins(after, e[1], e[2]) =
                              float_add(EdgeWins(before, e[1], e[2]),
                                        IF winner = NO_PLAYER THEN <<1, 2>>
                                        ELSE IF winner = after[e[1]].state.current_player
                                        THEN <<1, 1>> ELSE <<0, 1>>)
            /\ \A k \in DOMAIN after :
                   /\ NodeCount(after, k) =
                          NodeCount(before, k) + IF \E e \in path : e[1] = k THEN 1 ELSE 0
                   /\ \A i \in DOMAIN after[k].moves :
                          <<k, i>> \notin path =>
                              EdgeWins(after, k, i) = EdgeWins(before, k, i)

\* What a simulation on a state that is not over does: it raises, ValueError
\* in expand the first time and AssertionError in play_move afterwards, and
\* no node of the search has an edge.
PureSimulationRaises ==
    PureSimulated =>
        /\ returned[1].out.raised =
               IF state_key(returned[1].arg) \in DOMAIN returned[1].before.nodes
               THEN "AssertionError" ELSE "ValueError"
        /\ \A k \in DOMAIN model[1].nodes :
               /\ model[1].nodes[k].moves = <<>>
               /\ model[1].nodes[k].total_exploration_count = 0

(***************************************************************************)
(* C27.  A simulation of PureMonteCarloTreeSearch adds at most one node to *)
(* self.nodes, the node of the first state of the descent that is not over *)
(* and not in the table, and that node is expanded: it has one edge per    *)
(* playable move, each to the state the move leads to, and every such      *)
(* state is in discovered_states.                                          *)
(***************************************************************************)
C27_OneExpandedNodePerSimulation ==
    PureSimulated =>
        LET before == returned[1].before.nodes
            after == model[1].nodes
            new == DOMAIN after \ DOMAIN before
        IN  /\ returned[1].out.raised = "none"
            /\ Cardinality(new) <= 1
            /\ state_key(returned[1].arg) \notin DOMAIN before =>
                   new = {state_key(returned[1].arg)}
            /\ \A k \in new :
                   LET node == after[k]
                       playable == PlayableIndices(model[1].rules, node.state)
                   IN  /\ Len(node.moves) = Cardinality(playable)
                       /\ {node.moves[i].move_index : i \in DOMAIN node.moves} = playable
                       /\ \A i \in DOMAIN node.moves :
                              /\ node.moves[i].next_state =
                                     play_move(model[1].rules, node.state,
                                               PyInt(node.moves[i].move_index)).value
                              /\ state_key(node.moves[i].next_state)
                                     \in model[1].discovered_states

\* At most one node is added, and it has no edge.
OneNodeWithoutEdges ==
    PureSimulated =>
        LET new == DOMAIN model[1].nodes \ DOMAIN returned[1].before.nodes
        IN  /\ Cardinality(new) <= 1
            /\ \A k \in new : k = state_key(returned[1].arg) /\ model[1].nodes[k].moves = <<>>
            /\ model[1].discovered_states = {}

(***************************************************************************)
(* C28.  _Node.play_move of pure_montecarlo.py on a node that has an edge  *)
(* with exploration_count 0 returns an edge with exploration_count 0, for  *)
(* every exploration_rate and whatever the wins of the other edges.        *)
(***************************************************************************)
MoveSelected ==
    /\ returned # None
    /\ returned[1].op = "play_move"
    /\ model[1].class = "PureMonteCarloTreeSearch"

AnyEdgeOfAFreshNode ==
    (/\ MoveSelected
     /\ model[1].nodes[state_key(state[1])].total_exploration_count = 0) =>
        returned[1].out.raised = "none"

\* With the exploration_rate 1.4 of the config, an explored edge was
\* returned while another edge was never explored.
ExploredEdgeSelectedAgain ==
    /\ MoveSelected
    /\ returned[1].arg = <<7, 5>>
    /\ returned[1].out.raised = "none"
    /\ model[1].nodes[state_key(state[1])].moves[returned[1].out.value]
           .exploration_count > 0
    /\ \E i \in DOMAIN model[1].nodes[state_key(state[1])].moves :
           model[1].nodes[state_key(state[1])].moves[i].exploration_count = 0

(***************************************************************************)
(* C29.  The rollout of a Pure MCTS simulation goes on until the state is  *)
(* over, by playable moves other than resignation: it ends in a state that *)
(* is over, and that state was resigned only if the state the rollout      *)
(* started from was, the resign edge having been selected.                 *)
(***************************************************************************)
RolledOut ==
    /\ returned # None
    /\ returned[1].op = "rollout"

RolloutPlaysNoMove ==
    RolledOut =>
        IF is_game_over(returned[1].from)
        THEN returned[1].out = Ok(returned[1].from)
        ELSE returned[1].out.raised = "ValueError"

(***************************************************************************)
(* C30.  A simulation of MonteCarloTreeSearch on a state that is not over  *)
(* returns.  Its leaf is the one node it expanded, whose result_prediction *)
(* is the win_rate the evaluator gives for the state of the node, or a     *)
(* node whose state is over; with v the result_prediction of the leaf,     *)
(* every edge of the selected path is counted once more and its reward is  *)
(* the mean of the values it received, the new one being v where the       *)
(* player of the edge's node is the player of the leaf and 1 - v           *)
(* elsewhere.                                                              *)
(***************************************************************************)
SearchSimulated ==
    /\ returned # None
    /\ returned[1].op = "simulation"
    /\ model[1].class = "MonteCarloTreeSearch"
    /\ ~is_game_over(returned[1].arg)

Expanded(nodes, k) == k \in DOMAIN nodes /\ nodes[k].expanded_info # None

ExpandedMoves(nodes, k) ==
    IF Expanded(nodes, k) THEN nodes[k].expanded_info[1].moves ELSE <<>>

\* The edges that are counted higher in after than in before.
ExploredEdges(before, after) ==
    UNION {{<<k, i>> : i \in {j \in DOMAIN ExpandedMoves(after, k) :
                                j \notin DOMAIN ExpandedMoves(before, k)
                                \/ ExpandedMoves(after, k)[j].exploration_count
                                       # ExpandedMoves(before, k)[j].exploration_count}} :
           k \in DOMAIN after}

C30_LeafValueIsBackpropagated ==
    SearchSimulated =>
        LET before == returned[1].before.nodes
            after == model[1].nodes
            fresh == {k \in DOMAIN after : Expanded(after, k) /\ ~Expanded(before, k)}
            path == {e \in ExploredEdges(before, after) :
                        ExpandedMoves(after, e[1])[e[2]].exploration_count > 0}
        IN  /\ returned[1].out.raised = "none"
            /\ Expanded(after, state_key(returned[1].arg))
            /\ Cardinality(fresh) <= 1
            /\ \A k \in fresh :
                   LET evaluated == evaluator_evaluate(model[1].evaluator, after[k].state)
                   IN  /\ evaluated.raised = "none"
                       /\ after[k].expanded_info[1].result_prediction
                              = evaluated.value.win_rate
            /\ \E leaf \in DOMAIN after :
                   /\ leaf \in fresh \/ (fresh = {} /\ is_game_over(after[leaf].state))
                   /\ \A e \in path :
                          LET v == result_prediction(after[leaf]).value
                              new_reward ==
                                  IF after[e[1]].state.current_player
                                         = after[leaf].state.current_player
                                  THEN v ELSE float_sub(<<1, 1>>, v)
                              old == IF e[2] \in DOMAIN ExpandedMoves(before, e[1])
                                     THEN ExpandedMoves(before, e[1])[e[2]]
                                     ELSE [ExpandedMoves(after, e[1])[e[2]] EXCEPT
                                              !.reward = <<0, 1>>,
                                              !.exploration_count = 0]
                              now == ExpandedMoves(after, e[1])[e[2]]
                          IN  /\ now.exploration_count = old.exploration_count + 1
                              /\ float_mul(now.reward, <<now.exploration_count, 1>>)
                                     = float_add(float_mul(old.reward,
                                                           <<old.exploration_count, 1>>),
                                                 new_reward)

\* What a simulation on a state that is not over does: it raises in expand,
\* AttributeError in evaluate of a MinMaxEvaluator and ValueError in
\* engine.playable_moves behind a HashPolicy, and no node is expanded.
SearchSimulationRaises ==
    SearchSimulated =>
        /\ returned[1].out.raised =
               IF model[1].evaluator.class = "MinMaxEvaluator"
               THEN "AttributeError" ELSE "ValueError"
        /\ \A k \in DOMAIN model[1].nodes : ~Expanded(model[1].nodes, k)

(***************************************************************************)
(* C31.  The selection score of MonteCarloTreeSearch: while the parent     *)
(* node has never been explored (total_exploration_count = 0) every edge   *)
(* gets the same score, whatever the evaluator's prior, so the first       *)
(* selection at a node is a uniform tie-break; otherwise the score is      *)
(* reward + exploration_rate * evaluator_policy * sqrt(N_parent)           *)
(* / (1 + N_edge), and the edge with the highest score is selected.        *)
(***************************************************************************)
\* The last call was play_move of the node of the state, and it returned
\* the position of an edge.
NodeMoveSelected ==
    /\ model # None
    /\ model[1].class = "MonteCarloTreeSearch"
    /\ returned # None
    /\ returned[1].op = "play_move"
    /\ returned[1].arg = None
    /\ returned[1].out.raised = "none"

\* The expanded_info of the node of the state.
RootInfo == model[1].nodes[state_key(state[1])].expanded_info[1]

\* reward + exploration_rate * evaluator_policy * root / (1 + N_edge), root
\* being the square root of the parent's count.
ScoreWithRoot(edge, root) ==
    float_add(edge.reward,
              float_mul(float_mul(model[1].config.exploration_rate, edge.evaluator_policy),
                        <<root, 1 + edge.exploration_count>>))

\* The selected edge has the highest score where the parent was explored
\* (and the square root of its count is an integer).
SelectedByScore ==
    \A root \in 1 .. MaxExplorations :
        root * root = RootInfo.total_exploration_count
            => \A i \in DOMAIN RootInfo.moves :
                   float_le(ScoreWithRoot(RootInfo.moves[i], root),
                            ScoreWithRoot(RootInfo.moves[returned[1].out.value], root))

FirstSelectionFollowsPrior ==
    NodeMoveSelected =>
        /\ RootInfo.total_exploration_count = 0
               => \A i \in DOMAIN RootInfo.moves :
                      float_le(RootInfo.moves[i].evaluator_policy,
                               RootInfo.moves[returned[1].out.value].evaluator_policy)
        /\ SelectedByScore

\* A selection at an explored node, among edges with different scores.
SelectedAtExploredNode ==
    /\ NodeMoveSelected
    /\ RootInfo.total_exploration_count = 1
    /\ \E i \in DOMAIN RootInfo.moves :
           /\ RootInfo.moves[i].exploration_count = 1
           /\ i # returned[1].out.value

(***************************************************************************)
(* C32.  The visible policy of MonteCarloTreeSearch: for an expanded node  *)
(* the weight of each playable move is the exploration_count of its edge   *)
(* raised to 1 / temperature where temperature > 0; where temperature is   *)
(* 0 the weight is 1 exactly for the edges whose exploration_count is the  *)
(* maximum over the node's edges and 0 for the others; moves that are not  *)
(* playable get no weight; a negative temperature raises ValueError.       *)
(***************************************************************************)
\* The last call was get_move_policy_dict of the state.
MovePolicyAsked ==
    /\ model # None
    /\ model[1].class = "MonteCarloTreeSearch"
    /\ returned # None
    /\ returned[1].op = "get_move_policy_dict"

\* Two fractions are the same number.
SameNumber(a, b) == a[1] * b[2] = b[1] * a[2]

\* n to the power 1 / temperature, for the temperatures 1 / k.
CountToTheInverse(n, temperature) ==
    LET RECURSIVE power(_)
        power(k) == IF k = 0 THEN 1 ELSE n * power(k - 1)
    IN  <<power(temperature[2] \div temperature[1]), 1>>

NegativeTemperatureAsked ==
    /\ MovePolicyAsked
    /\ model[1].config.temperature[1] < 0
    /\ returned[1].out.raised = "ValueError"

(***************************************************************************)
(* C35.  In both searches, for every expanded node total_exploration_count *)
(* is the sum of the exploration_count of the node's edges, and in         *)
(* PureMonteCarloTreeSearch 0 <= exploration_wins <= exploration_count on  *)
(* every edge.                                                             *)
(***************************************************************************)
\* The sum of exploration_count over the first n edges.
RECURSIVE CountOfEdges(_, _)
CountOfEdges(edges, n) ==
    IF n = 0 THEN 0 ELSE CountOfEdges(edges, n - 1) + edges[n].exploration_count

\* The node with the given key has been expanded.
IsExpanded(search, key) ==
    IF search.class = "PureMonteCarloTreeSearch" THEN search.nodes[key].moves # <<>>
    ELSE search.nodes[key].expanded_info # None

SearchMoveAsked ==
    /\ model # None
    /\ model[1].class = "MonteCarloTreeSearch"
    /\ returned # None
    /\ returned[1].op = "play_move"
    /\ returned[1].arg # None
    /\ ~is_game_over(returned[1].arg)
    /\ returned[1].k = model[1].config.number_of_simulations
    /\ model[1].config.temperature[1] >= 0

C36_SearchMoveIsPlayable ==
    SearchMoveAsked =>
        /\ returned[1].out.raised = "none"
        /\ is_move_playable(R, returned[1].arg, returned[1].out.value) = Ok(TRUE)

\* What the code does: play_move on a state that is not over raises in the
\* first simulation, whatever the evaluator.
SearchMoveRaises ==
    SearchMoveAsked => returned[1].out.raised \in {"ValueError", "AttributeError"}

\* At an expanded node no edge of which was explored, the lines after the
\* loop raise ValueError for every temperature but 0: every weight is
\* 0 ** (1 / temperature) = 0.
UnexploredNodeHasNoWeight ==
    (/\ returned # None
     /\ returned[1].op = "choice"
     /\ RootInfo.total_exploration_count = 0
     /\ model[1].config.temperature # <<0, 1>>) => returned[1].out.raised = "ValueError"

\* The lines after the loop returned a move at an explored node.
ChoiceReturned ==
    /\ returned # None
    /\ returned[1].op = "choice"
    /\ returned[1].out.raised = "none"
    /\ model[1].config.temperature = <<1, 1>>

(***************************************************************************)
(* C33.  For the full state sequence of a finished game in which every     *)
(* move was chosen by this MonteCarloTreeSearch, train_from_game(result,   *)
(* states) completes without failing and hands the evaluator's train one   *)
(* target per state of the sequence, with win_rate                         *)
(* result_for_player(state.current_player, result) and move_policy the     *)
(* node's policy at the indices of the playable moves, 0 elsewhere.        *)
(***************************************************************************)
\* The last call was train_from_game.
TrainedFromGame ==
    /\ model # None
    /\ model[1].class = "MonteCarloTreeSearch"
    /\ returned # None
    /\ returned[1].op = "train_from_game"

\* The dict train_from_game builds for the evaluator in the last call.
LearningData ==
    learning_data_from(returned[1].before, returned[1].arg[1], returned[1].arg[2], 1,
                       [k \in {} |-> <<>>]).out

TrainFromGameRaises ==
    TrainedFromGame =>
        /\ returned[1].out.raised
               = (IF model[1].config.temperature[1] < 0 THEN "ValueError"
                  ELSE "AssertionError")
        /\ LearningData.raised = returned[1].out.raised
        /\ model[1].evaluator = returned[1].before.evaluator

(***************************************************************************)
(* C37.  Connect-four gravity: in every state reached from new_game()      *)
(* through ConnectFourEngine.play_move every occupied cell is in the       *)
(* bottom row or has an occupied cell directly below it; and for every     *)
(* state that is not over playable_moves yields, for each column whose top *)
(* cell is empty, exactly one move at the lowest empty cell of that        *)
(* column, plus the resign move.                                           *)
(***************************************************************************)
\* The session plays connect-four and has a state.
ConnectFourState == rules # None /\ R.kind = "ConnectFour" /\ state # None

\* Every occupied cell rests on the bottom row or on an occupied cell.
Gravity ==
    \A cell \in Cells(R.board_size) :
        S.board[cell] # NO_PLAYER =>
            \/ cell[1] = R.board_size[1] - 1
            \/ S.board[<<cell[1] + 1, cell[2]>>] # NO_PLAYER

\* The lowest empty cell of every column whose top cell is empty.
LowestEmptyCells ==
    {cell \in Cells(R.board_size) :
        /\ S.board[<<0, cell[2]>>] = NO_PLAYER
        /\ S.board[cell] = NO_PLAYER
        /\ \A row \in cell[1] + 1 .. R.board_size[1] - 1 :
               S.board[<<row, cell[2]>>] # NO_PLAYER}

\* playable_moves yields one move for each of these cells and the resign
\* move.
OneMovePerOpenColumn ==
    LET moves == playable_moves(R, S)
    IN  /\ moves.raised = "none"
        /\ Len(moves.value) = Cardinality(LowestEmptyCells) + 1
        /\ {moves.value[i] : i \in DOMAIN moves.value}
               = {Move(cell[1] * R.board_size[2] + cell[2], FALSE, Some(cell)).value :
                     cell \in LowestEmptyCells}
                 \cup {Move(get_move_index_for_resign(R), TRUE, None).value}

C37_GravityAndColumnMoves ==
    ConnectFourState =>
        /\ Gravity
        /\ ~is_game_over(S) => OneMovePerOpenColumn

\* The first half holds in this code.
GravityHolds == ConnectFourState => Gravity

\* The second half fails on every state that is not over: playable_moves
\* raises ValueError.
ColumnMovesRaise ==
    (ConnectFourState /\ ~is_game_over(S)) => playable_moves(R, S) = Raise("ValueError")

\* A connect-four state with a piece resting on another one.
StackedPieces ==
    /\ ConnectFourState
    /\ \E cell \in Cells(R.board_size) :
           /\ cell[1] < R.board_size[1] - 1
           /\ S.board[cell] # NO_PLAYER

(***************************************************************************)
(* C40.  Every game loop terminates: from new_game(), playing any playable *)
(* move again and again, a state that is over is reached after at most     *)
(* rows * columns moves, because each move that is not a resignation fills *)
(* exactly one empty cell and a resignation ends the game at once.         *)
(***************************************************************************)
\* The number of occupied cells of a state.
Pieces(s) == Cardinality({cell \in DOMAIN s.board : s.board[cell] # NO_PLAYER})

\* A pass of the loop fills exactly one empty cell, or it is the
\* resignation and the game is over.
MoveFillsOneCellOrResigns ==
    state' # state =>
        IF last'.arg = PyInt(get_move_index_for_resign(R))
        THEN is_game_over(state'[1]) /\ state'[1].board = S.board
        ELSE /\ Pieces(state'[1]) = Pieces(S) + 1
             /\ \E cell \in DOMAIN S.board :
                    /\ S.board[cell] = NO_PLAYER
                    /\ state'[1].board = [S.board EXCEPT ![cell] = S.current_player]

\* A state that is not over has an empty cell: with the cells counting the
\* passes, the loop has made fewer than rows * columns of them.
FullBoardIsOver ==
    ~is_game_over(S) => Pieces(S) < R.board_size[1] * R.board_size[2]

C40_GameLoopTerminates ==
    /\ [][MoveFillsOneCellOrResigns]_vars
    /\ []FullBoardIsOver
    /\ <>is_game_over(S)

\* A game that took rows * columns moves on a board of at least four cells.
C40_Witness ==
    /\ is_game_over(S)
    /\ ~S.result[1].resignation
    /\ Pieces(S) = R.board_size[1] * R.board_size[2]
    /\ Pieces(S) >= 4


(***************************************************************************)
(* C38: the notification protocol of GameService.play_move.                *)
(***************************************************************************)
\* The last call on the service was play_move.
ServicePlayed == returned # None /\ returned[1].op = "play_move"

\* The calls the listeners of the service get for a move from old_state to
\* new_state, every one made while the service holds new_state: on_move for
\* each listener in the order of registration, then, where new_state ends
\* the game, on_game_over for each listener.
CallsForMove(listeners, old_state, move, new_state) ==
    [i \in 1 .. (IF is_game_over(new_state) THEN 2 * Len(listeners) ELSE Len(listeners)) |->
        IF i <= Len(listeners)
        THEN [listener |-> listeners[i], event |-> "on_move",
              args |-> <<old_state, move, new_state>>, state |-> new_state]
        ELSE [listener |-> listeners[i - Len(listeners)], event |-> "on_game_over",
              args |-> <<new_state>>, state |-> new_state]]

\* C38: a play_move of the service that the engine accepts replaces the
\* state first, then calls on_move(old_state, move, new_state) on every
\* listener in the order of registration and, after all of these and only
\* where the new state ends the game, on_game_over(new_state) once on every
\* listener; a play_move in which the engine raises leaves the service as it
\* was and calls no listener; no on_move comes out of a state that ended the
\* game.
C38_ServiceNotifiesInOrder ==
    ServicePlayed =>
        /\ IF returned[1].out.raised = "none"
           THEN /\ model[1].state =
                       play_move(rules[1], returned[1].before.state, returned[1].arg).value
                /\ model[1].listeners = returned[1].before.listeners
                /\ returned[1].calls =
                       CallsForMove(model[1].listeners, returned[1].before.state,
                                    returned[1].arg, model[1].state)
           ELSE /\ model[1] = returned[1].before
                /\ returned[1].calls = <<>>
        /\ is_game_over(returned[1].before.state) =>
               \A i \in DOMAIN returned[1].calls : returned[1].calls[i].event # "on_move"

\* A move by index that ended the game was played through a service with two
\* listeners.
C38_Witness ==
    /\ ServicePlayed
    /\ returned[1].out.raised = "none"
    /\ Len(model[1].listeners) = 2
    /\ model[1].listeners[1] # model[1].listeners[2]
    /\ is_game_over(model[1].state)
    /\ is_int(returned[1].arg)

\* The engine refused a move of the service that has a listener.
RefusedByTheEngine ==
    /\ ServicePlayed
    /\ returned[1].out.raised # "none"
    /\ Len(model[1].listeners) > 0

(***************************************************************************)
(* C39: an AI move of the game panel is applied to the state it was        *)
(* computed from.                                                          *)
(***************************************************************************)
\* The AI computations in flight: the threads that have not ended and the
\* callbacks that wait for the main thread, each with the state it was
\* started on.
InFlight == model[1].threads \o model[1].after

\* The main thread has run the callback of an AI move.
CallbackRan == returned # None /\ returned[1].op = "main_thread_callback"

\* C39: at most one AI computation is in flight in a panel's GameService;
\* from its start to its callback on the main thread the service holds the
\* state the computation was started on (no click and no other callback
\* changes it); and a move the callback plays is played on that state.
C39_AiMoveAppliedToItsState ==
    /\ Len(InFlight) <= 1
    /\ \A i \in DOMAIN InFlight : InFlight[i].state = model[1].game_service.state
    /\ CallbackRan =>
           /\ returned[1].arg.state = returned[1].before.game_service.state
           /\ returned[1].out.raised = "none" =>
                  state[1] = play_move(rules[1], returned[1].arg.state,
                                       returned[1].arg.t).value

\* The callback has played a cell move that an AI computed, the game goes
\* on and the computation of the other AI's move is in flight.
C39_Witness ==
    /\ CallbackRan
    /\ returned[1].out.raised = "none"
    /\ ~returned[1].arg.t.resign
    /\ state[1] # returned[1].arg.state
    /\ Len(model[1].threads) = 1

\* A click on the board while an AI computation is in flight.
ClickedWhileInFlight ==
    /\ returned # None
    /\ returned[1].op = "on_click"
    /\ Len(returned[1].before.threads) + Len(returned[1].before.after) > 0

\* A click of a human player, whose turn it is in a game that goes on, raises
\* ValueError and plays no move.
HumanClickRaises ==
    (/\ returned # None
     /\ returned[1].op = "on_click"
     /\ ~is_game_over(returned[1].before.game_service.state)
     /\ ~returned[1].before.players[returned[1].before.game_service.state.current_player])
    => /\ returned[1].out.raised = "ValueError"
       /\ model[1] = returned[1].before

\* A human player's click in a game that goes on.
HumanClicked ==
    /\ returned # None
    /\ returned[1].op = "on_click"
    /\ returned[1].out.raised = "ValueError"

(***************************************************************************)
(* C34: the games and the calls of Trainer.train.                          *)
(***************************************************************************)
\* The calls of train on its model, by method.
CreateCalls ==
    SelectSeq(trainer[1].calls, LAMBDA call : call.op = "create_training_data_for_game")

TrainCalls == SelectSeq(trainer[1].calls, LAMBDA call : call.op = "train")

\* states is new_game() followed by the states play_move returned, in the
\* order of play, up to the state that ends the game, and result is the
\* result of that state.
GameInPlayOrder(result, states) ==
    /\ states # <<>>
    /\ states[1] = new_game(rules[1])
    /\ \A i \in 1 .. Len(states) - 1 :
           /\ ~is_game_over(states[i])
           /\ \E move \in IndexInputs(rules[1]) :
                  play_move(rules[1], states[i], move) = Ok(states[i + 1])
    /\ is_game_over(states[Len(states)])
    /\ result = states[Len(states)].result[1]

\* The training data of the games from to upto of the call, one after the other.
RECURSIVE DataOfGames(_, _)
DataOfGames(from, upto) ==
    IF from > upto THEN <<>>
    ELSE CreateCalls[from].out.value \o DataOfGames(from + 1, upto)

\* C34: Trainer.train plays iterations * simulations games; what it hands
\* to create_training_data_for_game for a game is new_game() followed by the
\* states of play_move in play order, the state that ended the game last,
\* with the result of that state; and Model.train is called once per
\* iteration, after the games of the iteration, with the training data of
\* these games in game order.
C34_TrainerPlaysAndTrains ==
    /\ trainer[1].pc # "raised"
    /\ trainer[1].pc = "done" =>
           /\ trainer[1].game_index =
                  trainer[1].self.config.iterations * trainer[1].self.config.simulations
           /\ Len(TrainCalls) = trainer[1].self.config.iterations
    /\ \A i \in DOMAIN CreateCalls :
           GameInPlayOrder(CreateCalls[i].arg[1], CreateCalls[i].arg[2])
    /\ \A k \in DOMAIN TrainCalls :
           /\ Len(CreateCalls) >= k * trainer[1].self.config.simulations
           /\ TrainCalls[k].arg =
                  DataOfGames((k - 1) * trainer[1].self.config.simulations + 1,
                              k * trainer[1].self.config.simulations)

\* What train does in this snapshot: the first game is played to its end
\* and handed over in play order, create_training_data_for_game raises
\* ValueError, and train ends there: no second game, no call of Model.train.
TrainRaisesAfterFirstGame ==
    /\ trainer[1].game_index <= 1
    /\ TrainCalls = <<>>
    /\ Len(CreateCalls) <= 1
    /\ \A i \in DOMAIN CreateCalls :
           /\ GameInPlayOrder(CreateCalls[i].arg[1], CreateCalls[i].arg[2])
           /\ CreateCalls[i].out.raised = "ValueError"
           /\ trainer[1].pc = "raised"
    /\ trainer[1].pc = "done" => trainer[1].game_index = 0

\* train has handed its first game to create_training_data_for_game.
FirstGameHanded ==
    /\ Len(CreateCalls) = 1
    /\ Len(CreateCalls[1].arg[2]) > 2

\* train has returned from an iteration without simulations: no game and no
\* call of Model.train.
IterationWithoutGames ==
    /\ trainer[1].pc = "done"
    /\ trainer[1].self.config.iterations > 0
    /\ trainer[1].self.config.simulations = 0
====
